---- MODULE Spec2Model ----
(***************************************************************************)
(* A model of the infact interpreter: the typed environment                *)
(* (EnvironmentImpl), the object factory (Factory<T>::CreateOrDie with its *)
(* member initializers) and the statement interpreter (Interpreter).       *)
(*                                                                         *)
(* Environments and their per-type variable maps live on a heap, because   *)
(* the code holds the maps by pointer (unordered_map<string, VarMapBase*>) *)
(* and Copy() has to replace every pointer by a fresh map.                 *)
(***************************************************************************)
EXTENDS Integers, Sequences, FiniteSets, TLC

VARIABLES
  envs,    \* heap of EnvironmentImpl objects; envs[1] is Interpreter::env_
  vmaps,   \* heap of VarMap objects, pointed to by the var_map_ of the envs
  last,    \* what the last host call was given and what it returned
  log,     \* the events of the last host call (instances, Init, PostInit)
  factory  \* the static data of Factory<Animal> and the Register calls made

vars == <<envs, vmaps, last, log, factory>>

\* ------------------------------------------------------------------ bounds

\* Environments the host may hold at once (the interpreter's and its copies).
MaxEnvs == 2
\* Statements in one EvalString input.
MaxStmts == 2
\* Elements of a vector value of an input.
MaxElems == 2
\* Member initializers in the argument list of a generated invocation.
MaxArgs == 2
\* Register calls on one factory.
MaxRegs == 4
\* ClearStatic calls and FactoryContainer calls in one run.
MaxOps == 3

\* ------------------------------------------------------------------ tokens

Tok(k, t) == [k |-> k, t |-> t]
ID(s) == Tok("IDENTIFIER", s)
RW(s) == Tok("RESERVED_WORD", s)
STR(s) == Tok("STRING", s)
NUM(s) == Tok("NUMBER", s)
P(s) == Tok("RESERVED_CHAR", s)
EofTok == Tok("EOF", "")

\* StreamTokenizer::Peek / PeekTokenType at token index pos (1-based).
PeekTok(st, pos) == IF pos <= Len(st) THEN st[pos] ELSE EofTok
Peek(st, pos) == PeekTok(st, pos).t
PeekTokenType(st, pos) == PeekTok(st, pos).k
\* Peek() == "(" in the code compares the token text; a STRING token "(" is
\* told apart from the reserved character by its kind in the tokenizer.
PeekIs(st, pos, c) == PeekTok(st, pos) = P(c)

\* NUMBER texts of the model and what atoi / atof make of them (doubles are
\* kept in tenths).
IntTexts == {"3", "4"}
DecTexts == {"2.5"}
Atoi(t) == CASE t = "3" -> 3 [] t = "4" -> 4 [] t = "2.5" -> 2 [] OTHER -> 0
AtofTenths(t) == CASE t = "3" -> 30 [] t = "4" -> 40 [] t = "2.5" -> 25 [] OTHER -> 0

\* ------------------------------------------------------------------ values

EmptyFn == [x \in {} |-> 0]

Val(k, n, s, f, e) == [k |-> k, n |-> n, s |-> s, f |-> f, e |-> e]
BoolVal(b) == Val("bool", IF b THEN 1 ELSE 0, "", EmptyFn, <<>>)
IntVal(i) == Val("int", i, "", EmptyFn, <<>>)
DoubleVal(tenths) == Val("double", tenths, "", EmptyFn, <<>>)
StringVal(s) == Val("string", 0, s, EmptyFn, <<>>)
\* shared_ptr<T>(): the null object of abstract type a.
NullObj(a) == Val(a, 0, "", EmptyFn, <<>>)
\* A live instance of concrete type c with the members set so far.
ObjVal(a, c, fields) == Val(a, 1, c, fields, <<>>)
VecVal(tag, elems) == Val(tag, 0, "", EmptyFn, elems)

\* ---------------------------------------------------------------- registry

PrimitiveTags == {"bool", "int", "double", "string"}
AbstractTypes == {"Animal", "Plant"}
ConsTable(a) ==
  CASE a = "Animal" -> {"Cow", "Sheep", "Calf"}
    [] a = "Plant" -> {"Tree"}
    [] OTHER -> {}
BaseTags == PrimitiveTags \cup AbstractTypes
VecTag(t) == CASE t = "bool" -> "bool[]" [] t = "int" -> "int[]"
               [] t = "double" -> "double[]" [] t = "string" -> "string[]"
               [] t = "Animal" -> "Animal[]" [] t = "Plant" -> "Plant[]"
               [] OTHER -> ""
AllTags == BaseTags \cup {VecTag(t) : t \in BaseTags}
\* The order in which the constructor of an environment creates its VarMaps.
TagSeq == <<"bool", "int", "double", "string", "Animal", "Plant",
            "bool[]", "int[]", "double[]", "string[]", "Animal[]", "Plant[]">>
TagIndex(tag) == CHOOSE i \in 1..Len(TagSeq) : TagSeq[i] = tag
IsVecTag(tag) == \E t \in BaseTags : tag = VecTag(t)
ElemTag(tag) == CHOOSE t \in BaseTags : tag = VecTag(t)

\* A resolution that answers with the abstract type registered first,
\* whichever factory holds the concrete type.
ConcreteToFirstFactoryType(c) ==
  IF \E a \in AbstractTypes : c \in ConsTable(a) THEN "Animal" ELSE ""

\* concrete_to_factory_type_: concrete name -> abstract name ("" if none).
ConcreteToFactoryType(c) ==
  IF \E a \in AbstractTypes : c \in ConsTable(a)
  THEN CHOOSE a \in AbstractTypes : c \in ConsTable(a)
  ELSE ""

\* Factory<T>'s static data before any Register call: initialized_ = 0 and
\* cons_table_ = 0.  cons_table_ is the set of its (type, constructor)
\* entries; constructors are numbered in the order they are allocated;
\* containers counts the factories pushed by FactoryContainer::Add and calls
\* lists the Register calls with the pointer each was given and returned.
\* FactoryContainer's static data: container_initialized_ is its
\* initialized_, factories_ the pointer ("null", to a "live" list, or to a
\* "deleted" one) with the base names of the factories the list holds.
\* ub counts the accesses through a null or dangling factories_, crashed
\* says one of them ended the process, out is what Print last wrote.
Unregistered ==
  [initialized_ |-> 0, cons_table_ |-> {}, allocated |-> 0, deleted |-> {},
   containers |-> 0, calls |-> <<>>,
   container_initialized_ |-> 0, factories_ |-> [state |-> "null", list |-> <<>>],
   ub |-> 0, twice |-> FALSE, crashed |-> FALSE, out |-> <<>>]

\* FactoryContainer::Add(factory) for a factory of base type base.
Add(f, base) ==
  LET g == IF f.container_initialized_ = 0
           THEN [f EXCEPT !.factories_ = [state |-> "live", list |-> <<>>],
                          !.container_initialized_ = 1]
           ELSE f
  IN IF g.factories_.state = "live"
     THEN [g EXCEPT !.factories_.list = Append(@, base), !.containers = @ + 1]
     ELSE [g EXCEPT !.ub = @ + 1]

\* cons_table_->find(type): its entries for type.
Find(f, type) == {en \in f.cons_table_ : en[1] = type}

\* A Register that stores the new constructor in every case, deleting the
\* one it replaces.
RegisterLatest(f, type) ==
  LET p == f.allocated + 1
      h == IF f.initialized_ = 0 THEN Add([f EXCEPT !.initialized_ = 1], "Animal") ELSE f
  IN [h EXCEPT !.allocated = p,
               !.cons_table_ = (@ \ Find(f, type)) \cup {<<type, p>>},
               !.deleted = @ \cup {en[2] : en \in Find(f, type)},
               !.calls = Append(@, [type |-> type, p |-> p, ret |-> p])]

\* Factory<T>::Register(type, p) with p a new constructor, as the
\* REGISTER_NAMED macro calls it.
Register(f, type) ==
  LET p == f.allocated + 1
      g == IF f.initialized_ = 0
           THEN Add([f EXCEPT !.initialized_ = 1, !.allocated = p], "Animal")
           ELSE [f EXCEPT !.allocated = p]
  IN IF Find(f, type) = {}
     THEN [g EXCEPT !.cons_table_ = @ \cup {<<type, p>>},
                    !.calls = Append(@, [type |-> type, p |-> p, ret |-> p])]
     ELSE [g EXCEPT !.deleted = @ \cup {p},
                    !.calls = Append(@, [type |-> type, p |-> p,
                                         ret |-> (CHOOSE en \in Find(f, type) : TRUE)[2]])]

\* Factory<T>::ClearStatic(): the constructors and the table are deleted;
\* cons_table_ keeps pointing at the deleted table, which every reader of
\* this model tests initialized_ before touching.
ClearStatic(f) ==
  IF f.initialized_ = 0 THEN f
  ELSE [f EXCEPT !.deleted = @ \cup {en[2] : en \in f.cons_table_},
                 !.cons_table_ = {},
                 !.initialized_ = 0]

\* Factory<T>::IsRegistered(type)
IsRegistered(f, type) == f.initialized_ # 0 /\ Find(f, type) # {}

\* CollectRegistered of the factory of base type base: the names it adds.
\* Only Factory<Animal> has registrations in this model.
CollectRegistered(f, base) ==
  IF base = "Animal" /\ f.initialized_ # 0 THEN {en[1] : en \in f.cons_table_} ELSE {}

\* FactoryContainer::Clear(): every factory is cleared (Factory<T>::Clear
\* calls ClearStatic) and deleted, then the list; initialized_ and
\* factories_ are left as they are.
Clear(f) ==
  IF f.container_initialized_ = 0 THEN f
  ELSE IF f.factories_.state = "live"
  THEN [(IF \E i \in 1..Len(f.factories_.list) : f.factories_.list[i] = "Animal"
         THEN ClearStatic(f) ELSE f)
         EXCEPT !.factories_ = [state |-> "deleted", list |-> <<>>]]
  ELSE [f EXCEPT !.ub = @ + 1, !.twice = TRUE]

\* FactoryContainer::Print(os): what it writes, one entry per factory.
PrintFactories(f) ==
  IF f.container_initialized_ = 0 THEN [f EXCEPT !.out = <<>>]
  ELSE IF f.factories_.state = "live"
  THEN [f EXCEPT !.out = [i \in 1..Len(f.factories_.list) |->
                            [base |-> f.factories_.list[i],
                             registered |-> CollectRegistered(f, f.factories_.list[i])]]]
  ELSE [f EXCEPT !.ub = @ + 1]

\* The outcomes of a call that takes the static data from f to g: when the
\* call went through a null or dangling factories_, the process may also
\* have crashed.
Outcomes(f, g) == IF g.ub > f.ub THEN {g, [g EXCEPT !.crashed = TRUE]} ELSE {g}

\* The static data once the REGISTER_NAMED of Cow, Sheep and Calf have run.
Startup == Register(Register(Register(Unregistered, "Cow"), "Sheep"), "Calf")

\* Initializers::Add entries as RegisterInitializers of each concrete type
\* makes them: name, TypeName<T>, member pointer non-null?, required?
MI(name, type, member, required) ==
  [name |-> name, type |-> type, member |-> member, required |-> required]
RegisterInitializers(c) ==
  CASE c = "Cow" -> {MI("name", "string", TRUE, TRUE), MI("age", "int", TRUE, FALSE)}
    [] c = "Sheep" -> {MI("name", "string", TRUE, TRUE), MI("age", "int", FALSE, FALSE)}
    [] c = "Calf" -> {MI("mother", "Animal", TRUE, FALSE), MI("tag", "int", FALSE, TRUE),
                      MI("age", "int", TRUE, FALSE)}
    [] OTHER -> {}

\* -------------------------------------------------------------- environment
\* The machine state threaded through the operations of one host call:
\* m.envs, m.vmaps (the two heaps) and m.log (the events so far).

Mach(e, v, l) == [envs |-> e, vmaps |-> v, log |-> l]
Emit(m, ev) == [m EXCEPT !.log = Append(@, ev)]

\* VarMap<T>(name, env, is_primitive): an empty map of element type `name`
\* owned by environment env.
NewVarMap(tag, env) == [name |-> tag, env |-> env, vars |-> EmptyFn]

\* EnvironmentImpl::EnvironmentImpl: one VarMap per primitive tag, per
\* abstract type of the FactoryContainer, and per vector of these.
NewEnv(m) ==
  LET e == Len(m.envs) + 1
      base == Len(m.vmaps)
  IN [m EXCEPT
        !.envs = Append(@, [types |-> EmptyFn,
                            var_map |-> [t \in AllTags |-> base + TagIndex(t)]]),
        !.vmaps = @ \o [i \in 1..Len(TagSeq) |-> NewVarMap(TagSeq[i], e)]]

\* A Defined that looks the name up in var_map_ instead of types_.
DefinedInVarMap(m, e, varname) == varname \in DOMAIN m.envs[e].var_map

\* EnvironmentImpl::Defined
Defined(m, e, varname) == varname \in DOMAIN m.envs[e].types

\* A GetType that answers with the element type of a vector variable.
GetTypeOfElements(m, e, varname) ==
  IF IsVecTag(m.envs[e].types[varname]) THEN ElemTag(m.envs[e].types[varname])
  ELSE m.envs[e].types[varname]

\* EnvironmentImpl::GetType, for a defined name.
GetType(m, e, varname) == m.envs[e].types[varname]

\* EnvironmentImpl::GetVarMapForType: 0 stands for nullptr.
GetVarMapForType(m, e, type) ==
  LET lookup_type == IF ConcreteToFactoryType(type) # ""
                     THEN ConcreteToFactoryType(type) ELSE type
  IN IF lookup_type \in DOMAIN m.envs[e].var_map
     THEN m.envs[e].var_map[lookup_type] ELSE 0

\* EnvironmentImpl::GetVarMap
GetVarMap(m, e, varname) == GetVarMapForType(m, e, GetType(m, e, varname))

\* VarMap<T>::Copy(new_env): a new map with the same variables, owned by
\* new_env.
VarMapCopy(vm, new_env) == [vm EXCEPT !.env = new_env]

\* The copy constructor alone: the new environment's var_map_ holds the
\* pointers of the original.
CopyShared(m, e) == [m EXCEPT !.envs = Append(@, m.envs[e])]

\* EnvironmentImpl::Copy: the copy constructor, then every VarMap pointer of
\* the new environment is replaced by a copy of the map it points to.  The
\* new environment is the last one of the heap.
Copy(m, e) ==
  LET new_env == Len(m.envs) + 1
      base == Len(m.vmaps)
      old == m.envs[e].var_map
  IN [m EXCEPT
        !.envs = Append(@, [m.envs[e] EXCEPT
                    !.var_map = [t \in AllTags |-> base + TagIndex(t)]]),
        !.vmaps = @ \o [i \in 1..Len(TagSeq) |->
                           VarMapCopy(m.vmaps[old[TagSeq[i]]], new_env)]]

\* VarMap<T>::Get(varname, value): found, and the value written to *value.
VarMapGet(vm, varname) ==
  IF varname \in DOMAIN vm.vars
  THEN [found |-> TRUE, value |-> vm.vars[varname]]
  ELSE [found |-> FALSE, value |-> NullObj("")]

\* VarMap<T>::Set(varname, value)
VarMapSet(vm, varname, value) ==
  [vm EXCEPT !.vars = (varname :> value) @@ @]

\* dynamic_cast<VarMap<T> *>(var_map): the map holds values of the C++ type
\* whose TypeName is T.
IsVarMapOf(vm, T) == vm.name = T

\* A typed Get whose slot type skips the dynamic_cast.
GetUnchecked(m, e, varname, T) ==
  IF ~Defined(m, e, varname)
  THEN [ret |-> FALSE, fatal |-> FALSE, written |-> FALSE, value |-> NullObj("")]
  ELSE LET r == VarMapGet(m.vmaps[m.envs[e].var_map[GetType(m, e, varname)]], varname)
       IN [ret |-> r.found, fatal |-> ~r.found, written |-> r.found, value |-> r.value]

\* A typed Get that reports success but leaves *value as it was.
GetWithoutWrite(m, e, varname, T) ==
  LET none == [ret |-> FALSE, fatal |-> FALSE, written |-> FALSE,
               value |-> NullObj("")]
  IN IF ~Defined(m, e, varname) THEN none
     ELSE IF GetType(m, e, varname) \notin DOMAIN m.envs[e].var_map
     THEN [none EXCEPT !.fatal = TRUE]
     ELSE IF ~IsVarMapOf(m.vmaps[m.envs[e].var_map[GetType(m, e, varname)]], T)
     THEN none
     ELSE IF VarMapGet(m.vmaps[m.envs[e].var_map[GetType(m, e, varname)]],
                       varname).found
     THEN [none EXCEPT !.ret = TRUE]
     ELSE [none EXCEPT !.fatal = TRUE]

\* EnvironmentImpl::Get<T>(varname, value): what it returns, whether it ended
\* in Error(), and whether and with what *value was written.
Get(m, e, varname, T) ==
  LET none == [ret |-> FALSE, fatal |-> FALSE, written |-> FALSE,
               value |-> NullObj("")]
  IN IF ~Defined(m, e, varname) THEN none
     ELSE LET type == GetType(m, e, varname)
          IN IF type \notin DOMAIN m.envs[e].var_map
             THEN [none EXCEPT !.fatal = TRUE]
             ELSE LET var_map == m.vmaps[m.envs[e].var_map[type]]
                  IN IF ~IsVarMapOf(var_map, T) THEN none
                     ELSE LET r == VarMapGet(var_map, varname)
                          IN IF r.found
                             THEN [ret |-> TRUE, fatal |-> FALSE,
                                   written |-> TRUE, value |-> r.value]
                             ELSE [none EXCEPT !.fatal = TRUE]

\* What an environment shows: each defined name with its tag and, where the
\* map selected by the tag holds it, its value.
EnvView(m, e) ==
  [n \in DOMAIN m.envs[e].types |->
     LET tag == m.envs[e].types[n]
         r == IF tag \in DOMAIN m.envs[e].var_map
              THEN VarMapGet(m.vmaps[m.envs[e].var_map[tag]], n)
              ELSE [found |-> FALSE, value |-> NullObj("")]
     IN [type |-> tag, found |-> r.found, value |-> r.value]]

\* ------------------------------------------------------------------ events

\* ev: what happened; id: the construction it belongs to (the token index of
\* its first token); name: a type or member name; view: an environment as
\* seen at that point; text: init_str; inst: the instance at that point.
NoInst == [fields |-> EmptyFn, initialized |-> EmptyFn]
Ev(ev, id, name, view, text, inst) ==
  [ev |-> ev, id |-> id, name |-> name, view |-> view, text |-> text,
   inst |-> inst]
Ev3(ev, id, name) == Ev(ev, id, name, EmptyFn, <<>>, NoInst)

\* Everything reachable from environment e: types_ and the contents of each
\* VarMap its var_map_ points to (e = 0: no environment).
EnvSnap(m, e) ==
  IF e = 0 THEN [types |-> EmptyFn, vars |-> EmptyFn]
  ELSE [types |-> m.envs[e].types,
        vars |-> [t \in DOMAIN m.envs[e].var_map |->
                    m.vmaps[m.envs[e].var_map[t]].vars]]

\* ----------------------------------------------------------- value decoding

\* A result of a parsing operation: ok = FALSE stands for Error() thrown.
Res(ok, m, pos, val) == [ok |-> ok, m |-> m, pos |-> pos, val |-> val]
Fail(m, pos) == Res(FALSE, m, pos, NullObj(""))

\* The destructor of a child environment and of its VarMaps: everything
\* allocated after the heaps had ne environments and nv maps is released.
Release(m, ne, nv) ==
  [m EXCEPT !.envs = SubSeq(@, 1, ne), !.vmaps = SubSeq(@, 1, nv)]

\* A test for the null object that knows the word nullptr only.
IsNullptr(tok) == tok = RW("nullptr")

\* CreateOrDie's test for the null object: RESERVED_WORD nullptr or NULL.
IsNullWord(tok) == tok = RW("nullptr") \/ tok = RW("NULL")

\* EnvironmentImpl::InferType: the tag the next token(s) stand for, "" when
\* none can be inferred.
RECURSIVE InferType(_, _, _, _)
InferType(m, e, st, pos) ==
  LET tok == PeekTok(st, pos)
  IN CASE tok = RW("true") \/ tok = RW("false") -> "bool"
       [] tok.k = "NUMBER" -> IF tok.t \in IntTexts THEN "int" ELSE "double"
       [] tok.k = "STRING" -> "string"
       [] tok.k = "IDENTIFIER" /\ PeekIs(st, pos + 1, "(") ->
            ConcreteToFactoryType(tok.t)
       [] tok.k = "IDENTIFIER" /\ ~PeekIs(st, pos + 1, "(") ->
            IF Defined(m, e, tok.t) THEN GetType(m, e, tok.t) ELSE ""
       [] tok = P("{") -> VecTag(InferType(m, e, st, pos + 1))
       [] OTHER -> ""

RECURSIVE DecodeValue(_, _, _, _, _)
RECURSIVE DecodeElems(_, _, _, _, _, _)
RECURSIVE ReadAndSet(_, _, _, _, _, _)
RECURSIVE Init(_, _, _, _, _, _, _)
RECURSIVE ParseInits(_, _, _, _, _, _, _, _)
RECURSIVE CreateOrDie(_, _, _, _, _)

\* A literal of a primitive tag.
DecodeLiteral(m, tag, st, pos) ==
  LET tok == PeekTok(st, pos)
  IN CASE tag = "bool" /\ (tok = RW("true") \/ tok = RW("false")) ->
            Res(TRUE, m, pos + 1, BoolVal(tok.t = "true"))
       [] tag = "int" /\ tok.k = "NUMBER" /\ tok.t \in IntTexts ->
            Res(TRUE, m, pos + 1, IntVal(Atoi(tok.t)))
       [] tag = "double" /\ tok.k = "NUMBER" ->
            Res(TRUE, m, pos + 1, DoubleVal(AtofTenths(tok.t)))
       [] tag = "string" /\ tok.k = "STRING" ->
            Res(TRUE, m, pos + 1, StringVal(tok.t))
       [] OTHER -> Fail(m, pos)

\* A reference to a defined variable, type-checked against the target tag.
DecodeReference(m, e, tag, st, pos) ==
  LET g == Get(m, e, Peek(st, pos), tag)
  IN IF g.ret THEN Res(TRUE, m, pos + 1, g.value) ELSE Fail(m, pos)

IsReference(m, e, st, pos) ==
  /\ PeekTokenType(st, pos) = "IDENTIFIER"
  /\ ~PeekIs(st, pos + 1, "(")
  /\ Defined(m, e, Peek(st, pos))

\* VarMap<T>::ReadAndSet's reading of one value of type tag, in the
\* environment e that owns the map.
DecodeValue(m, e, tag, st, pos) ==
  CASE IsReference(m, e, st, pos) -> DecodeReference(m, e, tag, st, pos)
    [] ~IsReference(m, e, st, pos) /\ tag \in PrimitiveTags ->
         DecodeLiteral(m, tag, st, pos)
    [] ~IsReference(m, e, st, pos) /\ tag \in AbstractTypes ->
         CreateOrDie(m, tag, st, pos, e)
    [] ~IsReference(m, e, st, pos) /\ IsVecTag(tag) /\ PeekIs(st, pos, "{") ->
         DecodeElems(m, e, tag, st, pos + 1, <<>>)
    [] OTHER -> Fail(m, pos)

\* After one element r of a vector: a comma, the closing brace, or an error.
\* next = TRUE when further elements may follow.
ElemsNext(r, tag, st, elems) ==
  IF ~r.ok THEN [next |-> FALSE, res |-> r]
  ELSE IF PeekIs(st, r.pos, ",")
  THEN [next |-> TRUE, res |-> Res(TRUE, r.m, r.pos + 1, Append(elems, r.val))]
  ELSE IF PeekIs(st, r.pos, "}")
  THEN [next |-> FALSE,
        res |-> Res(TRUE, r.m, r.pos + 1, VecVal(tag, Append(elems, r.val)))]
  ELSE [next |-> FALSE, res |-> Fail(r.m, r.pos)]

RECURSIVE ElemsLoop(_, _, _, _)
ElemsLoop(n, e, tag, st) ==
  IF n.next THEN DecodeElems(n.res.m, e, tag, st, n.res.pos, n.res.val)
  ELSE n.res

\* The elements of a vector after its open brace: value (',' value)* [','] '}'
DecodeElems(m, e, tag, st, pos, elems) ==
  IF PeekIs(st, pos, "}")
  THEN Res(TRUE, m, pos + 1, VecVal(tag, elems))
  ELSE IF InferType(m, e, st, pos) \notin {"", ElemTag(tag)}
  THEN Fail(m, pos)
  ELSE ElemsLoop(ElemsNext(DecodeValue(m, e, ElemTag(tag), st, pos), tag, st, elems),
                 e, tag, st)

\* The end of ReadAndSet: the value r read for varname is recorded in types_
\* of e under tag and in VarMap vm.
Record(r, e, varname, tag, vm) ==
  IF ~r.ok THEN r
  ELSE Res(TRUE,
           [r.m EXCEPT !.envs[e].types = (varname :> tag) @@ @,
                       !.vmaps[vm] = VarMapSet(@, varname, r.val)],
           r.pos, r.val)

\* A ReadAndSet that reads the value as the declared tag says without
\* comparing the declared tag with the inferred one.
ReadAndSetDeclared(m, e, varname, st, pos, type) ==
  LET tag == IF type # "" THEN type ELSE InferType(m, e, st, pos)
  IN IF Defined(m, e, varname) \/ tag \notin DOMAIN m.envs[e].var_map
     THEN Fail(m, pos)
     ELSE Record(DecodeValue(m, m.vmaps[m.envs[e].var_map[tag]].env, tag, st, pos),
                 e, varname, tag, m.envs[e].var_map[tag])

\* EnvironmentImpl::ReadAndSet(varname, st, type): type = "" asks for
\* inference.  On success the name is recorded in types_ of e and its value
\* in the VarMap that var_map_ of e holds for the tag.
ReadAndSet(m, e, varname, st, pos, type) ==
  LET inferred == InferType(m, e, st, pos)
      tag == IF type # "" THEN type ELSE inferred
  IN IF \/ Defined(m, e, varname)
        \/ type # "" /\ inferred # "" /\ type # inferred
        \/ tag \notin DOMAIN m.envs[e].var_map
     THEN Fail(m, pos)
     ELSE Record(DecodeValue(m, m.vmaps[m.envs[e].var_map[tag]].env, tag, st, pos),
                 e, varname, tag, m.envs[e].var_map[tag])

\* ------------------------------------------------------------------ factory

\* The initializer of type `type` registered under member_name, if any.
HasInitializer(type, member_name) ==
  \E mi \in RegisterInitializers(type) : mi.name = member_name
FindInitializer(type, member_name) ==
  CHOOSE mi \in RegisterInitializers(type) : mi.name = member_name

\* A fresh instance: no member set, every initializer with initialized_ = 0.
NewInstance(type) ==
  [fields |-> EmptyFn,
   initialized |-> [n \in {mi.name : mi \in RegisterInitializers(type)} |-> 0]]

\* An Init that counts an initializer only when it has a member pointer.
SetMemberCountsMembers(r, mi, env, inst, id) ==
  IF ~r.ok THEN r
  ELSE IF mi.member
  THEN LET var_map == GetVarMap(r.m, env, mi.name)
           g == VarMapGet(r.m.vmaps[var_map], mi.name)
       IN Res(TRUE, Emit(r.m, Ev3("Init", id, mi.name)), r.pos,
              [fields |-> (mi.name :> g.value) @@ inst.fields,
               initialized |-> [inst.initialized EXCEPT ![mi.name] = @ + 1]])
  ELSE Res(TRUE, r.m, r.pos, inst)

\* An Init that copies the value into the instance for every initializer,
\* with a member pointer or without.
SetMemberAlways(r, mi, env, inst, id) ==
  IF ~r.ok THEN r
  ELSE LET var_map == GetVarMap(r.m, env, mi.name)
           g == VarMapGet(r.m.vmaps[var_map], mi.name)
       IN Res(TRUE, Emit(r.m, Ev3("Init", id, mi.name)), r.pos,
              [fields |-> (mi.name :> g.value) @@ inst.fields,
               initialized |-> [inst.initialized EXCEPT ![mi.name] = @ + 1]])

\* TypedMemberInitializer<T>::Init after env->ReadAndSet returned r: the
\* member is set from the map of its type, or the temporary is counted.
SetMember(r, mi, env, inst, id) ==
  IF ~r.ok THEN r
  ELSE IF mi.member
  THEN LET var_map == GetVarMap(r.m, env, mi.name)
           typed == var_map # 0 /\ IsVarMapOf(r.m.vmaps[var_map], mi.type)
           g == IF typed THEN VarMapGet(r.m.vmaps[var_map], mi.name)
                ELSE [found |-> FALSE, value |-> NullObj("")]
       IN IF g.found
          THEN Res(TRUE, Emit(r.m, Ev3("Init", id, mi.name)), r.pos,
                   [fields |-> (mi.name :> g.value) @@ inst.fields,
                    initialized |-> [inst.initialized EXCEPT ![mi.name] = @ + 1]])
          ELSE Res(TRUE, r.m, r.pos, inst)
  ELSE Res(TRUE, Emit(r.m, Ev3("Init", id, mi.name)), r.pos,
           [inst EXCEPT !.initialized[mi.name] = @ + 1])

\* TypedMemberInitializer<T>::Init(st, env) of initializer mi on the
\* instance inst under construction (id names the construction in the log).
Init(m, mi, env, st, pos, inst, id) ==
  SetMember(ReadAndSet(m, env, mi.name, st, pos, mi.type), mi, env, inst, id)

\* A member end that reads a comma if there is one and asks for nothing
\* otherwise.
AfterInitCommaOptional(r, st) ==
  IF ~r.ok THEN r
  ELSE IF ~PeekIs(st, r.pos, ")") THEN Fail(r.m, r.pos)
  ELSE IF PeekIs(st, r.pos + 1, ",") THEN Res(TRUE, r.m, r.pos + 2, r.val)
  ELSE Res(TRUE, r.m, r.pos + 1, r.val)

\* After member_initializer->Init returned r: the close parenthesis of the
\* member, then a comma or the final parenthesis.
AfterInit(r, st) ==
  IF ~r.ok THEN r
  ELSE IF ~PeekIs(st, r.pos, ")") THEN Fail(r.m, r.pos)
  ELSE IF PeekIs(st, r.pos + 1, ",") THEN Res(TRUE, r.m, r.pos + 2, r.val)
  ELSE IF PeekIs(st, r.pos + 1, ")") THEN Res(TRUE, r.m, r.pos + 1, r.val)
  ELSE Fail(r.m, r.pos + 1)

RECURSIVE InitsLoop(_, _, _, _, _, _)
InitsLoop(r, a, type, env, st, id) ==
  IF ~r.ok THEN r ELSE ParseInits(r.m, a, type, env, st, r.pos, r.val, id)

\* An initializer list whose loop also ends once no required member is
\* missing.
ParseInitsUntilComplete(m, a, type, env, st, pos, inst, id) ==
  IF PeekIs(st, pos, ")") \/ {mi \in RegisterInitializers(type) :
                                mi.required /\ inst.initialized[mi.name] = 0} = {}
  THEN Res(TRUE, m, pos, inst)
  ELSE IF \/ PeekTokenType(st, pos) # "IDENTIFIER"
          \/ ~HasInitializer(type, Peek(st, pos))
          \/ ~PeekIs(st, pos + 1, "(")
  THEN Fail(m, pos)
  ELSE InitsLoop(AfterInit(Init(m, FindInitializer(type, Peek(st, pos)), env, st,
                                pos + 2, inst, id), st),
                 a, type, env, st, id)

\* An initializer list that decodes every argument in a copy of its own of
\* the child environment.
ParseInitsInOwnCopy(m, a, type, env, st, pos, inst, id) ==
  IF PeekIs(st, pos, ")") THEN Res(TRUE, m, pos, inst)
  ELSE IF \/ PeekTokenType(st, pos) # "IDENTIFIER"
          \/ ~HasInitializer(type, Peek(st, pos))
          \/ ~PeekIs(st, pos + 1, "(")
  THEN Fail(m, pos)
  ELSE InitsLoop(AfterInit(Init(Copy(m, env), FindInitializer(type, Peek(st, pos)),
                                Len(m.envs) + 1, st, pos + 2, inst, id), st),
                 a, type, env, st, id)

\* The initializer list of CreateOrDie: while (st.Peek() != ")") { ... }
ParseInits(m, a, type, env, st, pos, inst, id) ==
  IF PeekIs(st, pos, ")") THEN Res(TRUE, m, pos, inst)
  ELSE IF \/ PeekTokenType(st, pos) # "IDENTIFIER"
          \/ ~HasInitializer(type, Peek(st, pos))
          \/ ~PeekIs(st, pos + 1, "(")
  THEN Fail(m, pos)
  ELSE InitsLoop(AfterInit(Init(m, FindInitializer(type, Peek(st, pos)), env, st,
                                pos + 2, inst, id), st),
                 a, type, env, st, id)

\* shared_ptr<Environment> env_ptr(env == nullptr ? CreateEmpty() : Copy()):
\* the child environment is the last one of the heap.
ChildEnvironmentShallow(m, env) == IF env = 0 THEN NewEnv(m) ELSE CopyShared(m, env)
ChildEnvironment(m, env) == IF env = 0 THEN NewEnv(m) ELSE Copy(m, env)

\* The initializers that are required and whose Init has not counted.
MissingRequiredMembersOnly(type, inst) ==
  {mi \in RegisterInitializers(type) :
     mi.required /\ mi.member /\ inst.initialized[mi.name] = 0}
MissingRequired(type, inst) ==
  {mi \in RegisterInitializers(type) :
     mi.required /\ inst.initialized[mi.name] = 0}

\* instance->PostInit(env_ptr.get(), init_str)
PostInit(m, id, type, env_ptr, init_str, inst) ==
  Emit(m, Ev("PostInit", id, type, EnvView(m, env_ptr), init_str, inst))

\* Error() thrown inside CreateOrDie: the child environment is destroyed
\* during unwinding.
Thrown(m, ne, nv, id, pos) ==
  Fail(Release(Emit(m, Ev3("Error", id, "")), ne, nv), pos)

\* CreateOrDie returns val: the child environment is destroyed; the log
\* keeps what the calling environment holds at that point.
Return(m, ne, nv, id, type, env, pos, val) ==
  Res(TRUE,
      Emit(Release(m, ne, nv),
           Ev("Return", id, type, EnvSnap(Release(m, ne, nv), env), <<>>, NoInst)),
      pos, val)

\* The end of CreateOrDie with PostInit invoked before the required members
\* are checked.
FinishPostInitFirst(r, a, type, env, env_ptr, st, start, ne, nv) ==
  IF ~r.ok \/ ~PeekIs(st, r.pos, ")") THEN Thrown(r.m, ne, nv, start, r.pos)
  ELSE IF MissingRequired(type, r.val) # {}
  THEN Thrown(Emit(PostInit(Emit(r.m, Ev3("CloseParen", start, type)), start, type,
                            env_ptr, SubSeq(st, start, r.pos), r.val),
                   Ev3("RequiredMissing", start, type)),
              ne, nv, start, r.pos + 1)
  ELSE Return(Emit(PostInit(Emit(r.m, Ev3("CloseParen", start, type)), start, type,
                            env_ptr, SubSeq(st, start, r.pos), r.val),
                   Ev3("RequiredChecked", start, type)),
              ne, nv, start, type, env, r.pos + 1, ObjVal(a, type, r.val.fields))

\* The end of CreateOrDie, after the initializer list returned r: the
\* closing parenthesis, the required members, PostInit, return.
Finish(r, a, type, env, env_ptr, st, start, ne, nv) ==
  IF ~r.ok \/ ~PeekIs(st, r.pos, ")") THEN Thrown(r.m, ne, nv, start, r.pos)
  ELSE IF MissingRequired(type, r.val) # {}
  THEN Thrown(Emit(Emit(r.m, Ev3("CloseParen", start, type)),
                   Ev3("RequiredMissing", start, type)),
              ne, nv, start, r.pos + 1)
  ELSE Return(PostInit(Emit(Emit(r.m, Ev3("CloseParen", start, type)),
                            Ev3("RequiredChecked", start, type)),
                       start, type, env_ptr, SubSeq(st, start, r.pos), r.val),
              ne, nv, start, type, env, r.pos + 1, ObjVal(a, type, r.val.fields))

\* CreateOrDie once the child environment exists (the last of m's heap):
\* start is the stream position of the first token, ne and nv the sizes of
\* the heaps when CreateOrDie was entered.
Construct(m, a, st, start, env, ne, nv) ==
  IF IsNullWord(PeekTok(st, start))
  THEN Return(m, ne, nv, start, "", env, start + 1, NullObj(a))
  ELSE IF PeekTokenType(st, start) # "IDENTIFIER" THEN Thrown(m, ne, nv, start, start)
  ELSE IF ~PeekIs(st, start + 1, "(")
  THEN Thrown(Emit(m, Ev3("ExpectedOpenParen", start, Peek(st, start))),
              ne, nv, start, start + 1)
  ELSE IF Peek(st, start) \notin ConsTable(a)
  THEN Thrown(Emit(m, Ev3("UnknownType", start, Peek(st, start))),
              ne, nv, start, start + 2)
  ELSE Finish(ParseInits(Emit(m, Ev3("NewInstance", start, Peek(st, start))),
                         a, Peek(st, start), Len(m.envs), st, start + 2,
                         NewInstance(Peek(st, start)), start),
              a, Peek(st, start), env, Len(m.envs), st, start, ne, nv)

\* Factory<T>::CreateOrDie(st, env) for the factory of abstract type a;
\* env = 0 stands for nullptr.  The child environment env_ptr lives until
\* the call returns or throws.
CreateOrDie(m, a, st, pos, env) ==
  Construct(ChildEnvironment(
              Emit(m, Ev("Enter", pos, a, EnvSnap(m, env), <<>>, NoInst)), env),
            a, st, pos, env, Len(m.envs), Len(m.vmaps))

\* -------------------------------------------------------------- interpreter

\* The optional <type_specifier> of a statement: a primitive tag or an
\* abstract type name, possibly followed by [ ], and then an IDENTIFIER.
\* tag = "" when the statement has none.
ReadTypeSpecifier(st, pos) ==
  LET tok == PeekTok(st, pos)
  IN IF tok.k = "IDENTIFIER" /\ tok.t \in BaseTags
     THEN IF PeekIs(st, pos + 1, "[") /\ PeekIs(st, pos + 2, "]")
             /\ PeekTokenType(st, pos + 3) = "IDENTIFIER"
          THEN [tag |-> VecTag(tok.t), pos |-> pos + 3]
          ELSE IF PeekTokenType(st, pos + 1) = "IDENTIFIER"
               THEN [tag |-> tok.t, pos |-> pos + 1]
               ELSE [tag |-> "", pos |-> pos]
     ELSE [tag |-> "", pos |-> pos]

\* A statement end that takes the end of the input for the ';'.
EndStatementOrEof(r, st) ==
  IF ~r.ok THEN r
  ELSE IF PeekTokenType(st, r.pos) = "EOF" THEN r
  ELSE IF ~PeekIs(st, r.pos, ";") THEN Fail(r.m, r.pos)
  ELSE Res(TRUE, r.m, r.pos + 1, r.val)

\* After read-and-set returned r: the ';' of the statement.
EndStatement(r, st) ==
  IF ~r.ok THEN r
  ELSE IF ~PeekIs(st, r.pos, ";") THEN Fail(r.m, r.pos)
  ELSE Res(TRUE, r.m, r.pos + 1, r.val)

\* One statement: [ <type_specifier> ] <variable_name> '=' <value> ';'
EvalStatement(m, env, st, pos) ==
  LET ts == ReadTypeSpecifier(st, pos)
  IN IF \/ PeekTokenType(st, ts.pos) # "IDENTIFIER"
        \/ Defined(m, env, Peek(st, ts.pos))
        \/ ~PeekIs(st, ts.pos + 1, "=")
     THEN Fail(m, ts.pos)
     ELSE EndStatement(ReadAndSet(m, env, Peek(st, ts.pos), st, ts.pos + 2, ts.tag),
                       st)

RECURSIVE Eval(_, _, _, _)
RECURSIVE EvalLoop(_, _, _)
\* A loop that, after a statement failed, goes on behind the next ';'.
EvalLoopResync(r, env, st) ==
  LET semis == {i \in r.pos..Len(st) : st[i] = P(";")}
  IN IF ~r.ok /\ semis = {} THEN r
     ELSE Eval(r.m, env, st,
               IF r.ok THEN r.pos
               ELSE 1 + CHOOSE i \in semis : \A j \in semis : i <= j)

\* The loop of Eval: the next statement unless the last one failed.
EvalLoop(r, env, st) == IF ~r.ok THEN r ELSE Eval(r.m, env, st, r.pos)

\* Interpreter::Eval(StreamTokenizer &): statements until EOF; the first
\* Error() ends the call.
Eval(m, env, st, pos) ==
  IF PeekTokenType(st, pos) = "EOF" THEN Res(TRUE, m, pos, NullObj(""))
  ELSE EvalLoop(EvalStatement(m, env, st, pos), env, st)

\* ------------------------------------------------------------------- inputs
\* Inputs are built as syntax trees and rendered to the token sequence the
\* tokenizer would deliver, which is what the operations above read.

RECURSIVE Join(_)
Join(parts) ==
  IF Len(parts) = 0 THEN <<>>
  ELSE IF Len(parts) = 1 THEN parts[1]
  ELSE parts[1] \o <<P(",")>> \o Join(Tail(parts))

\* <member_name> '(' <value> ')'
Arg(member_name, value) == <<ID(member_name), P("(")>> \o value \o <<P(")")>>
\* <type> '(' <member_init_list> ')'
Invoke(type, args) == <<ID(type), P("(")>> \o Join(args) \o <<P(")")>>
\* '{' <literal_list> '}' or '{' <spec_list> '}'
Vec(elems) == <<P("{")>> \o Join(elems) \o <<P("}")>>

TypeSpecifier(tag) ==
  IF tag = "" THEN <<>>
  ELSE IF IsVecTag(tag) THEN <<ID(ElemTag(tag)), P("["), P("]")>>
  ELSE <<ID(tag)>>

\* [ <type_specifier> ] <variable_name> '=' <value> ';'
Stmt(ty, nm, value) == [ty |-> ty, nm |-> nm, val |-> value]
Render(s) == TypeSpecifier(s.ty) \o <<ID(s.nm), P("=")>> \o s.val \o <<P(";")>>
RECURSIVE RenderProgram(_)
RenderProgram(prog) ==
  IF Len(prog) = 0 THEN <<>> ELSE Render(Head(prog)) \o RenderProgram(Tail(prog))

\* Sequences over S of length lo..hi.
SeqsOf(S, lo, hi) == UNION {[1..k -> S] : k \in lo..hi}

\* One literal of each primitive tag, and an object of the abstract type.
Literal(tag) ==
  CASE tag = "bool" -> <<RW("true")>>
    [] tag = "int" -> <<NUM("3")>>
    [] tag = "double" -> <<NUM("2.5")>>
    [] tag = "string" -> <<STR("foo")>>
    [] tag = "Plant" -> Invoke("Tree", <<>>)
    [] OTHER -> Invoke("Cow", <<Arg("name", <<STR("foo")>>)>>)

\* Values with the tag they are of: [tag, val].
TV(tag, value) == [tag |-> tag, val |-> value]
ScalarValues == {TV(t, Literal(t)) : t \in BaseTags}
\* Vectors are empty or of MaxElems elements.
VectorValues ==
  {TV(VecTag(t), Vec([i \in 1..k |-> Literal(t)])) : t \in BaseTags, k \in {0, MaxElems}}
ObjectValues ==
  {TV("Animal", v) : v \in {
     <<RW("nullptr")>>, <<RW("NULL")>>,
     Invoke("Cow", <<Arg("name", <<STR("foo")>>), Arg("age", <<NUM("3")>>)>>),
     Invoke("Cow", <<Arg("age", <<NUM("3")>>), Arg("name", <<STR("foo")>>)>>),
     Invoke("Cow", <<Arg("name", <<ID("n")>>)>>),
     Invoke("Cow", <<Arg("age", <<NUM("3")>>)>>),
     Invoke("Cow", <<Arg("name", <<STR("foo")>>), Arg("name", <<STR("bar")>>)>>),
     Invoke("Sheep", <<Arg("name", <<STR("foo")>>), Arg("age", <<NUM("3")>>)>>),
     Invoke("Calf", <<Arg("tag", <<NUM("3")>>),
                      Arg("mother", Invoke("Cow", <<Arg("name", <<ID("n")>>)>>))>>),
     Invoke("Calf", <<Arg("mother", <<RW("nullptr")>>)>>),
     Invoke("Dog", <<>>)}}

\* The statements of the interpreter's inputs: every value assigned to x
\* with its own tag and with none, some with a tag that is not theirs, and
\* the statements that define n.
Statements ==
  UNION {{Stmt("", "x", tv.val), Stmt(tv.tag, "x", tv.val)} :
           tv \in ScalarValues \cup VectorValues \cup ObjectValues}
  \cup {Stmt(ty, "x", <<ID("n")>>) : ty \in {"", "string", "int"}}
  \cup {Stmt("int", "x", <<STR("foo")>>), Stmt("double", "x", <<NUM("3")>>),
        Stmt("string[]", "x", <<STR("foo")>>), Stmt("Animal", "x", <<NUM("3")>>)}
  \cup {Stmt("string", "n", <<STR("foo")>>), Stmt("", "n", <<NUM("3")>>)}

\* The statements that inputs of several statements are made of.
CoreStatements ==
  {Stmt("string", "n", <<STR("foo")>>),
   Stmt("Animal", "x", Invoke("Cow", <<Arg("name", <<ID("n")>>)>>)),
   Stmt("", "n", <<NUM("4")>>)}

Programs ==
  {<<s>> : s \in Statements} \cup SeqsOf(CoreStatements, 2, MaxStmts)

\* ------------------------------------------------------------ specification

\* The snapshots of all environments of the heap.
Heap == Mach(envs, vmaps, <<>>)
Snaps == [e \in 1..Len(envs) |-> EnvSnap(Heap, e)]

NoSpec == [type |-> "", args |-> <<>>]
NoCall ==
  [op |-> "", prog |-> <<>>, spec |-> NoSpec, env |-> 0, ok |-> TRUE,
   name |-> "", type |-> "", ret |-> FALSE, fatal |-> FALSE, written |-> FALSE,
   val |-> NullObj(""), pre |-> <<>>, tail |-> <<>>]

\* Interpreter::Interpreter: env_ = new EnvironmentImpl(debug)
Interpreter ==
  /\ envs = NewEnv(Mach(<<>>, <<>>, <<>>)).envs
  /\ vmaps = NewEnv(Mach(<<>>, <<>>, <<>>)).vmaps
  /\ last = NoCall
  /\ factory = Startup
  /\ log = <<>>

\* Interpreter::EvalString(input)
EvalString(prog) ==
  LET r == Eval(Heap, 1, RenderProgram(prog), 1)
  IN /\ envs' = r.m.envs
     /\ vmaps' = r.m.vmaps
     /\ factory' = factory
     /\ log' = r.m.log
     /\ last' = [NoCall EXCEPT !.op = "EvalString", !.prog = prog, !.env = 1,
                               !.ok = r.ok, !.pre = Snaps]

\* Interpreter::Get<T>(varname, value)
InterpreterGet(varname, T) ==
  LET g == Get(Heap, 1, varname, T)
  IN /\ last' = [NoCall EXCEPT !.op = "Get", !.name = varname, !.type = T,
                               !.env = 1, !.ok = ~g.fatal,
                               !.ret = g.ret, !.fatal = g.fatal,
                               !.written = g.written, !.val = g.value,
                               !.pre = Snaps]
     /\ factory' = factory
     /\ log' = <<>>
     /\ UNCHANGED <<envs, vmaps>>

VarNames == {"x", "n", "y"}
SlotTypes == {"int", "string", "Animal", "bool[]"}

Next ==
  \/ \E prog \in Programs : EvalString(prog)
  \/ \E varname \in VarNames, T \in SlotTypes : InterpreterGet(varname, T)

Spec == Interpreter /\ [][Next]_vars

\* ------------------------------------------- specification of the factory
\* One call of Factory<Animal>::CreateOrDie(spec, err_msg, env) by the host,
\* on a specification string and a calling environment drawn from the sets
\* below (env = 0: no calling environment).

ArgChoices ==
  {[p |-> "name", v |-> <<STR("foo")>>],
   [p |-> "name", v |-> <<ID("n")>>],
   [p |-> "name", v |-> <<NUM("3")>>],
   [p |-> "age", v |-> <<NUM("3")>>],
   [p |-> "age", v |-> <<ID("tag")>>],
   [p |-> "tag", v |-> <<NUM("4")>>],
   [p |-> "mother", v |-> <<RW("nullptr")>>],
   [p |-> "mother", v |-> Invoke("Cow", <<Arg("name", <<STR("foo")>>)>>)],
   [p |-> "mother", v |-> Invoke("Calf", <<Arg("tag", <<NUM("3")>>)>>)],
   [p |-> "weight", v |-> <<NUM("3")>>]}

Invocations ==
  {[type |-> c, args |-> a] :
     c \in {"Cow", "Sheep", "Calf", "Dog"}, a \in SeqsOf(ArgChoices, 0, MaxArgs)}

RenderSpec(spec) ==
  Invoke(spec.type, [i \in 1..Len(spec.args) |-> Arg(spec.args[i].p, spec.args[i].v)])

\* The calling environments: the interpreter's after each of these inputs.
CallerPrograms ==
  {<<>>, <<Stmt("string", "n", <<STR("foo")>>)>>, <<Stmt("int", "n", <<NUM("3")>>)>>,
   <<Stmt("int", "tag", <<NUM("3")>>)>>, <<Stmt("int", "age", <<NUM("3")>>)>>}

\* Specification strings that are not one invocation: a type name that is
\* not followed by '(', and a specification followed by further tokens.
\* A string is the invocation `spec` (none for NoSpec) followed by `tail`.
SpecString(spec, tail) == [spec |-> spec, tail |-> tail]
SpecTokens(str) ==
  (IF str.spec = NoSpec THEN <<>> ELSE RenderSpec(str.spec)) \o str.tail
BareTypeStrings ==
  {SpecString(NoSpec, <<ID(c)>> \o t) :
     c \in {"Dog", "Cow"}, t \in {<<>>, <<P(";")>>, <<P(")")>>, <<ID("name")>>}}
TrailingStrings ==
  {SpecString(spec, t) :
     spec \in {[type |-> "Cow", args |-> <<[p |-> "name", v |-> <<STR("foo")>>]>>]},
     t \in {<<ID("z")>>, <<P(")")>>, <<P(";")>>, <<P(","), ID("Cow")>>}}
  \cup {SpecString(NoSpec, <<RW(w)>> \o t) :
          w \in {"nullptr", "NULL"}, t \in {<<>>, <<ID("z")>>, <<P(")")>>}}
SpecStrings ==
  {SpecString(spec, <<>>) : spec \in Invocations}
  \cup BareTypeStrings \cup TrailingStrings

FactoryCall ==
  \E prog \in CallerPrograms, str \in SpecStrings, env \in {0, 1} :
     LET r == Eval(NewEnv(Mach(<<>>, <<>>, <<>>)), 1, RenderProgram(prog), 1)
     IN /\ prog # <<>> => env = 1
        /\ envs = r.m.envs
        /\ vmaps = r.m.vmaps
        /\ factory = Startup
        /\ log = <<>>
        /\ last = [NoCall EXCEPT !.op = "call", !.prog = prog, !.spec = str.spec,
                                 !.tail = str.tail, !.env = env]

\* Factory<Animal>::CreateOrDie(spec, err_msg, env)
FactoryCreateOrDie ==
  /\ last.op = "call"
  /\ LET r == CreateOrDie(Heap, "Animal", SpecTokens(last), 1, last.env)
     IN /\ envs' = r.m.envs
        /\ vmaps' = r.m.vmaps
        /\ factory' = factory
        /\ log' = r.m.log
        /\ last' = [last EXCEPT !.op = "CreateOrDie", !.ok = r.ok, !.val = r.val,
                                !.pre = Snaps]

SpecFactory == FactoryCall /\ [][FactoryCreateOrDie]_vars

\* --------------------------------------- specification of the environment
\* The host works on environments directly: ReadAndSet, Copy and Get on the
\* interpreter's environment and on its copies.

EnvInputs ==
  {[name |-> "x", type |-> "int", val |-> <<NUM("3")>>],
   [name |-> "x", type |-> "", val |-> Invoke("Cow", <<Arg("name", <<ID("n")>>)>>)],
   [name |-> "n", type |-> "string", val |-> <<STR("foo")>>],
   [name |-> "n", type |-> "int", val |-> <<STR("foo")>>],
   [name |-> "x", type |-> "Animal",
    val |-> Invoke("Calf", <<Arg("tag", <<NUM("3")>>),
                             Arg("mother", Invoke("Cow", <<Arg("name", <<ID("n")>>)>>))>>)],
   [name |-> "y", type |-> "Animal",
    val |-> Invoke("Cow", <<Arg("name", <<STR("foo")>>), Arg("name", <<STR("bar")>>)>>)],
   [name |-> "y", type |-> "", val |-> <<ID("x")>>]}

\* env->ReadAndSet(varname, st, type) on environment e
EnvReadAndSet(e, in) ==
  LET r == ReadAndSet(Heap, e, in.name, in.val, 1, in.type)
  IN /\ envs' = r.m.envs
     /\ vmaps' = r.m.vmaps
     /\ factory' = factory
     /\ log' = r.m.log
     /\ last' = [NoCall EXCEPT !.op = "ReadAndSet", !.env = e, !.name = in.name,
                               !.type = in.type, !.ok = r.ok, !.pre = Snaps]

\* env->Copy() of environment e; the host keeps the copy.
EnvCopy(e) ==
  /\ Len(envs) < MaxEnvs
  /\ LET m == Copy(Heap, e)
     IN /\ envs' = m.envs
        /\ vmaps' = m.vmaps
        /\ factory' = factory
        /\ log' = <<>>
        /\ last' = [NoCall EXCEPT !.op = "Copy", !.env = e, !.pre = Snaps]

\* env->Get<T>(varname, value) on environment e
EnvGet(e, varname, T) ==
  LET g == Get(Heap, e, varname, T)
  IN /\ last' = [NoCall EXCEPT !.op = "Get", !.name = varname, !.type = T,
                               !.env = e, !.ok = ~g.fatal,
                               !.ret = g.ret, !.fatal = g.fatal,
                               !.written = g.written, !.val = g.value,
                               !.pre = Snaps]
     /\ factory' = factory
     /\ log' = <<>>
     /\ UNCHANGED <<envs, vmaps>>

\* What `return type_it->second` yields when type_it is types_.end(): the
\* read is undefined, the process dies or the caller gets whatever string
\* the bytes behind the table spell.
GetTypeOfEnd ==
  {[ok |-> FALSE, type |-> ""]} \cup {[ok |-> TRUE, type |-> t] : t \in {"", "?", "int"}}

\* env->GetType(varname) on environment e
EnvGetType(e, varname) ==
  \E out \in IF Defined(Heap, e, varname)
              THEN {[ok |-> TRUE, type |-> GetType(Heap, e, varname)]}
              ELSE GetTypeOfEnd :
     /\ last' = [NoCall EXCEPT !.op = "GetType", !.name = varname, !.env = e,
                               !.ok = out.ok, !.type = out.type, !.pre = Snaps]
     /\ factory' = factory
     /\ log' = <<>>
     /\ UNCHANGED <<envs, vmaps>>

\* The process died in the last call.
Crashed == last.op = "GetType" /\ ~last.ok

NextEnv ==
  /\ ~Crashed
  /\ \/ \E e \in 1..Len(envs), in \in EnvInputs : EnvReadAndSet(e, in)
     \/ \E e \in 1..Len(envs) : EnvCopy(e)
     \/ \E e \in 1..Len(envs), T \in {"int", "Animal"} : EnvGet(e, "x", T)
     \/ \E e \in 1..Len(envs) : EnvGetType(e, "x")

SpecEnv == Interpreter /\ [][NextEnv]_vars

\* ------------------------------------- specification of one EvalString call
\* One call of Interpreter::EvalString on an interpreter that an earlier
\* call has set up.  The input is a list of statements followed by the
\* tokens of `tail`, which lets an input end in something that is not a
\* statement.

\* What the earlier call may have defined.
SetupPrograms ==
  {<<>>,
   <<Stmt("string", "n", <<STR("foo")>>)>>,
   <<Stmt("int", "x", <<NUM("3")>>)>>,
   <<Stmt("double", "x", <<NUM("2.5")>>)>>,
   <<Stmt("int[]", "x", Vec(<<Literal("int"), Literal("int")>>))>>,
   <<Stmt("Animal", "x", <<RW("nullptr")>>)>>,
   <<Stmt("string", "n", <<STR("foo")>>), Stmt("int", "x", <<NUM("3")>>)>>,
   <<Stmt("string", "n", <<STR("foo")>>),
     Stmt("Animal", "x", Invoke("Cow", <<Arg("name", <<ID("n")>>)>>))>>}

\* Statements whose value is a variable: y = x with and without a declared
\* tag, and x, n used inside an invocation and inside a vector.
ReferenceInvocations ==
  {[type |-> "Cow", args |-> <<[p |-> "name", v |-> <<ID("n")>>]>>],
   [type |-> "Cow", args |-> <<[p |-> "name", v |-> <<ID("n")>>],
                               [p |-> "age", v |-> <<ID("x")>>]>>],
   [type |-> "Calf", args |-> <<[p |-> "tag", v |-> <<NUM("3")>>],
                                [p |-> "mother", v |-> <<ID("x")>>]>>],
   [type |-> "Calf", args |-> <<[p |-> "tag", v |-> <<ID("x")>>]>>]}
ReferenceStatements ==
  {Stmt(ty, "y", <<ID("x")>>) : ty \in {""} \cup AllTags}
  \cup {Stmt("", "y", <<ID("n")>>)}
  \cup {Stmt(ty, "y", RenderSpec(spec)) : ty \in {"", "Animal"},
                                         spec \in ReferenceInvocations}

\* Values whose first tokens decide a tag: literals, non-empty vectors and
\* invocations of a registered type.
InferableValues ==
  {tv \in ScalarValues \cup VectorValues \cup ObjectValues :
     /\ ~IsNullWord(tv.val[1])
     /\ tv.val # Vec(<<>>)
     /\ tv.val[1].k = "IDENTIFIER" => ConcreteToFactoryType(tv.val[1].t) # ""}
\* Every such value declared with every tag.
TypedStatements ==
  {Stmt(ty, "x", tv.val) : ty \in AllTags, tv \in InferableValues}

\* The elements a vector is written with: a literal or an invocation of tag
\* `tag`, or (tag "") a reference to the variable ref.
Elem(val, tag, ref) == [val |-> val, tag |-> tag, ref |-> ref]
ElemChoices ==
  {Elem(Literal(t), t, "") : t \in PrimitiveTags}
  \cup {Elem(<<NUM("4")>>, "int", ""),
        Elem(Invoke("Cow", <<Arg("name", <<STR("foo")>>)>>), "Animal", ""),
        Elem(Invoke("Sheep", <<Arg("name", <<STR("foo")>>)>>), "Animal", ""),
        Elem(Invoke("Tree", <<>>), "Plant", ""),
        Elem(<<ID("x")>>, "", "x")}
VectorTypeSpecifiers == {"", "int[]", "Animal[]"}
VectorInputs ==
  {[ty |-> ty, elems |-> es] : ty \in VectorTypeSpecifiers,
                               es \in SeqsOf(ElemChoices, 1, MaxElems)}
VectorStmt(vin) ==
  Stmt(vin.ty, "y", Vec([i \in 1..Len(vin.elems) |-> vin.elems[i].val]))
VectorStatements == {VectorStmt(vin) : vin \in VectorInputs}

\* Lists written with any number of commas at each place: seps[1] before
\* the first part, seps[i + 1] after part i.
Commas(k) == [i \in 1..k |-> P(",")]
RECURSIVE JoinWith(_, _)
JoinWith(parts, seps) ==
  Commas(seps[1]) \o (IF parts = <<>> THEN <<>>
                      ELSE parts[1] \o JoinWith(Tail(parts), Tail(seps)))
MaxCommas == 2
SepsOf(n) == [1..(n + 1) -> 0..MaxCommas]
\* Argument lists of Cow and of Tree.
ArgLists ==
  {[type |-> "Tree", args |-> <<>>],
   [type |-> "Cow", args |-> <<[p |-> "name", v |-> <<STR("foo")>>]>>],
   [type |-> "Cow", args |-> <<[p |-> "name", v |-> <<STR("foo")>>],
                               [p |-> "age", v |-> <<NUM("3")>>]>>],
   [type |-> "Cow", args |-> <<[p |-> "age", v |-> <<NUM("4")>>],
                               [p |-> "name", v |-> <<STR("foo")>>]>>]}
ArgListInputs ==
  UNION {{[spec |-> spec, seps |-> seps] : seps \in SepsOf(Len(spec.args))} :
           spec \in ArgLists}
ArgListStmt(in) ==
  Stmt("", "z",
       <<ID(in.spec.type), P("(")>>
       \o JoinWith([i \in 1..Len(in.spec.args) |->
                      Arg(in.spec.args[i].p, in.spec.args[i].v)], in.seps)
       \o <<P(")")>>)
\* Vectors of literals.
ElemLists ==
  {<<Elem(<<RW("true")>>, "bool", ""), Elem(<<RW("false")>>, "bool", ""),
     Elem(<<RW("true")>>, "bool", "")>>,
   <<Elem(<<NUM("3")>>, "int", ""), Elem(<<NUM("4")>>, "int", "")>>,
   <<Elem(<<STR("foo")>>, "string", "")>>}
ElemListInputs ==
  UNION {{[ty |-> ty, elems |-> es, seps |-> seps] :
            ty \in {"", VecTag(es[1].tag)}, seps \in SepsOf(Len(es))} :
           es \in ElemLists}
ElemListStmt(in) ==
  Stmt(in.ty, "z",
       <<P("{")>> \o JoinWith([i \in 1..Len(in.elems) |-> in.elems[i].val], in.seps)
       \o <<P("}")>>)
CommaStatements ==
  {ArgListStmt(in) : in \in ArgListInputs} \cup {ElemListStmt(in) : in \in ElemListInputs}

\* Statements that assign the null object: alone with every tag and with
\* none, as both elements of a vector, and as an argument.
NullWords == {"nullptr", "NULL"}
NullStmt(ty, word) == Stmt(ty, "q", <<RW(word)>>)
NullVectorStmt(word) == Stmt("Animal[]", "q", Vec(<<<<RW(word)>>, <<RW(word)>>>>))
NullArgStmt(word) ==
  Stmt("Animal", "q", Invoke("Calf", <<Arg("tag", <<NUM("3")>>),
                                       Arg("mother", <<RW(word)>>)>>))
NullStatements ==
  {NullStmt(ty, word) : ty \in {""} \cup AllTags, word \in NullWords}
  \cup {NullVectorStmt(word) : word \in NullWords}
  \cup {NullArgStmt(word) : word \in NullWords}

InputStatements ==
  Statements \cup ReferenceStatements \cup TypedStatements \cup VectorStatements
  \cup CommaStatements \cup NullStatements

\* What may follow the statements of an input: a complete statement, or
\* text that is not one.
CompleteTails == {<<>>, Render(Stmt("", "z", <<NUM("3")>>))}
IncompleteTails ==
  {<<ID("z")>>, <<ID("z"), P("=")>>, <<ID("z"), P("="), NUM("3")>>,
   <<ID("int"), ID("z"), P("="), NUM("3")>>, <<NUM("3")>>, <<P(";")>>,
   <<P("}")>>, <<ID("z"), P("="), NUM("3"), P(";"), ID("w")>>}
TailInputs ==
  {[prog |-> p, tail |-> t] :
     p \in {<<>>} \cup {<<s>> : s \in CoreStatements},
     t \in CompleteTails \cup IncompleteTails}

\* Statements for inputs of several statements, some of which fail:
\* a redefinition, a reference to an undefined variable, a value that is
\* not of the declared tag, and a statement `f = 3` whose ';' is missing,
\* written with the statement `g = 4;` that follows it.
MissingSemicolon == Stmt("", "f", <<NUM("3"), ID("g"), P("="), NUM("4")>>)
AbortStatements ==
  {Stmt("", "a", <<NUM("3")>>), Stmt("int", "a", <<NUM("4")>>),
   Stmt("", "c", <<ID("a")>>), Stmt("int", "e", <<STR("foo")>>),
   MissingSemicolon}
AbortInputs ==
  {[prog |-> p, tail |-> <<>>] : p \in SeqsOf(AbortStatements, 2, MaxStmts)}

\* The inputs of the call: statements, then tail.
EvalInputs ==
  {[prog |-> <<s>>, tail |-> <<>>] : s \in InputStatements} \cup TailInputs
  \cup AbortInputs

EvalCall ==
  \E setup \in SetupPrograms, in \in EvalInputs :
     LET r == Eval(NewEnv(Mach(<<>>, <<>>, <<>>)), 1, RenderProgram(setup), 1)
     IN /\ envs = r.m.envs
        /\ vmaps = r.m.vmaps
        /\ factory = Startup
        /\ log = <<>>
        /\ last = [NoCall EXCEPT !.op = "call", !.prog = in.prog, !.tail = in.tail,
                                 !.env = 1]

\* Interpreter::EvalString(input) on the input drawn by EvalCall.
EvalInput ==
  /\ last.op = "call"
  /\ LET r == Eval(Heap, 1, RenderProgram(last.prog) \o last.tail, 1)
     IN /\ envs' = r.m.envs
        /\ vmaps' = r.m.vmaps
        /\ factory' = factory
        /\ log' = r.m.log
        /\ last' = [last EXCEPT !.op = "EvalString", !.ok = r.ok, !.pre = Snaps]

SpecEval == EvalCall /\ [][EvalInput]_vars

\* ------------------------------------- specification of the registration
\* The static initializers of a program: Register calls on Factory<Animal>,
\* each with a new constructor, several of them possibly under one name.

RegisteredNames == {"Cow", "Sheep", "Calf"}

Unregister ==
  /\ envs = <<>>
  /\ vmaps = <<>>
  /\ log = <<>>
  /\ last = NoCall
  /\ factory = Unregistered

\* Factory<Animal>::Register(type, new Constructor)
FactoryRegister ==
  \E type \in RegisteredNames :
     /\ Len(factory.calls) < MaxRegs
     /\ ~factory.crashed
     /\ factory' \in Outcomes(factory, Register(factory, type))
     /\ UNCHANGED <<envs, vmaps, last, log>>

SpecRegister == Unregister /\ [][FactoryRegister]_vars

\* ------------------------------------------- ClearStatic and FactoryContainer
\* Register, ClearStatic and the static methods of FactoryContainer called
\* in any order; log names the calls other than Register.

Called(g, op) ==
  /\ Len(log) < MaxOps
  /\ ~factory.crashed
  /\ factory' \in Outcomes(factory, g)
  /\ log' = Append(log, Ev3(op, 0, ""))
  /\ UNCHANGED <<envs, vmaps, last>>

\* Factory<Animal>::ClearStatic()
FactoryClearStatic == Called(ClearStatic(factory), "ClearStatic")

\* FactoryContainer::Add(new Factory<Plant>())
ContainerAdd == Called(Add(factory, "Plant"), "Add")

\* FactoryContainer::Clear()
ContainerClear == Called(Clear(factory), "Clear")

\* FactoryContainer::Print(os)
ContainerPrint == Called(PrintFactories(factory), "Print")

\* FactoryContainer::begin() and end(): a null factories_ is reported on
\* cerr and dereferenced all the same.
ContainerIterate ==
  \E op \in {"begin", "end"} :
     Called(IF factory.factories_.state = "live" THEN factory
            ELSE [factory EXCEPT !.ub = @ + 1], op)

SpecContainer ==
  Unregister /\ [][\/ FactoryRegister
                    \/ FactoryClearStatic
                    \/ ContainerAdd
                    \/ ContainerClear
                    \/ ContainerPrint
                    \/ ContainerIterate]_vars

\* ------------------------------------------------------------------ claims

\* The positions in the log of the events of kind ev, and of construction id.
Events(ev) == {j \in 1..Len(log) : log[j].ev = ev}
EventsOf(ev, id) == {j \in Events(ev) : log[j].id = id}

\* A variable of a snapshot: its tag and the value the map of that tag holds.
Binding(snap, n) == [type |-> snap.types[n], value |-> snap.vars[snap.types[n]][n]]

\* types_ and the VarMaps of environment e agree on the names they hold.
InSync(e) ==
  /\ \A n \in DOMAIN envs[e].types :
       /\ envs[e].types[n] \in DOMAIN envs[e].var_map
       /\ n \in DOMAIN vmaps[envs[e].var_map[envs[e].types[n]]].vars
  /\ \A t \in DOMAIN envs[e].var_map :
       \A n \in DOMAIN vmaps[envs[e].var_map[t]].vars :
          n \in DOMAIN envs[e].types /\ envs[e].types[n] = t

\* C1: in every reachable state and in every environment, a name is in
\* types_ if and only if the VarMap selected by its stored tag holds a value
\* for it, and no typed Get on a defined name ends in the fatal
\* "out of sync" error.
C1_TypesAndVarMapsInSync ==
  \A e \in 1..Len(envs) :
     /\ InSync(e)
     /\ \A n \in DOMAIN envs[e].types, T \in AllTags : ~Get(Heap, e, n, T).fatal

\* C1 witness: two environments, one of which holds the object x, right after
\* a construction for y failed halfway through its argument list.
C1_Witness ==
  /\ Len(envs) = 2
  /\ last.op = "ReadAndSet" /\ ~last.ok /\ last.name = "y" /\ last.type = "Animal"
  /\ "x" \in DOMAIN envs[last.env].types
  /\ envs[last.env].types["x"] = "Animal"
  /\ "x" \notin DOMAIN envs[3 - last.env].types

\* C2: after a successful EvalString, every variable that a statement of the
\* input declared with an explicit type tag T is defined and GetType of it
\* is T.
C2_DeclaredTagIsStored ==
  last.op = "EvalString" /\ last.ok =>
    \A i \in 1..Len(last.prog) :
       last.prog[i].ty # "" =>
          /\ Defined(Heap, 1, last.prog[i].nm)
          /\ GetType(Heap, 1, last.prog[i].nm) = last.prog[i].ty

\* C2 witness: a successful statement that declares a non-empty vector of
\* objects.
C2_Witness ==
  /\ last.op = "EvalString" /\ last.ok
  /\ Len(last.prog) = 1
  /\ last.prog[1].ty = "Animal[]"
  /\ Len(last.prog[1].val) > 2

\* C3: every CreateOrDie that returns, at any nesting depth, leaves in the
\* calling environment exactly the names, tags and values it held when the
\* call was entered; after a one-statement input the interpreter's
\* environment holds what it held before and at most the statement's variable.
C3_CallerEnvironmentUnchanged ==
  /\ \A j \in Events("Return") :
        \E i \in EventsOf("Enter", log[j].id) : i < j /\ log[i].view = log[j].view
  /\ last.op = "EvalString" /\ Len(last.prog) = 1 =>
       LET nm == last.prog[1].nm
           now == Snaps[1]
           pre == last.pre[1]
       IN /\ DOMAIN now.types \subseteq DOMAIN pre.types \cup {nm}
          /\ last.ok => nm \in DOMAIN now.types
          /\ \A t \in DOMAIN now.vars :
                /\ DOMAIN now.vars[t] \subseteq DOMAIN pre.vars[t] \cup {nm}
                /\ \A n \in DOMAIN pre.vars[t] :
                      n \in DOMAIN now.vars[t] /\ now.vars[t][n] = pre.vars[t][n]
          /\ \A n \in DOMAIN pre.types :
                n \in DOMAIN now.types /\ now.types[n] = pre.types[n]

\* C3 witness: a successful statement that constructs an object whose
\* argument constructs another, in an environment that already held n.
C3_Witness ==
  /\ last.op = "EvalString" /\ last.ok
  /\ Cardinality(Events("Return")) = 2
  /\ Cardinality(Events("PostInit")) = 2
  /\ DOMAIN last.pre[1].types = {"n"}
  /\ DOMAIN Snaps[1].types = {"n", "x"}

\* C4: an input with a statement whose variable is already defined (before
\* the call, or by an earlier statement of the input) fails, and every
\* variable keeps the tag and the value of its first binding.
C4_NoRedefinition ==
  last.op = "EvalString" =>
    /\ (\E i \in 1..Len(last.prog) :
          \/ last.prog[i].nm \in DOMAIN last.pre[1].types
          \/ \E j \in 1..(i - 1) : last.prog[j].nm = last.prog[i].nm)
       => ~last.ok
    /\ \A n \in DOMAIN last.pre[1].types :
          /\ n \in DOMAIN Snaps[1].types
          /\ Binding(Snaps[1], n) = Binding(last.pre[1], n)
    /\ \A i \in 1..Len(last.prog) :
          /\ last.prog[i].nm \notin DOMAIN last.pre[1].types
          /\ \A j \in 1..(i - 1) : last.prog[j].nm # last.prog[i].nm
          /\ last.prog[i].ty # ""
          /\ last.prog[i].nm \in DOMAIN Snaps[1].types
          => /\ Binding(Snaps[1], last.prog[i].nm).type = last.prog[i].ty
             /\ Binding(Snaps[1], last.prog[i].nm).value.k = last.prog[i].ty

\* C4 witness: n was bound to a string by an earlier call; a statement that
\* binds n to an integer fails.
C4_Witness ==
  /\ last.op = "EvalString" /\ ~last.ok
  /\ last.prog = <<Stmt("", "n", <<NUM("3")>>)>>
  /\ "n" \in DOMAIN last.pre[1].types
  /\ last.pre[1].types["n"] = "string"

\* The parameter names an invocation supplies, and those its type requires.
Supplied(spec) == {spec.args[i].p : i \in 1..Len(spec.args)}
RequiredNames(type) == {mi.name : mi \in {x \in RegisterInitializers(type) : x.required}}
\* The names the calling environment of the last call defined.
CallerNames == IF last.env = 0 THEN {} ELSE DOMAIN last.pre[last.env].types
\* Values that are literals of a tag.
LiteralsOf(tag) ==
  CASE tag = "int" -> {<<NUM("3")>>, <<NUM("4")>>}
    [] tag = "string" -> {<<STR("foo")>>}
    [] tag = "Animal" -> {<<RW("nullptr")>>,
                          Invoke("Cow", <<Arg("name", <<STR("foo")>>)>>)}
    [] OTHER -> {}
\* An argument list of distinct parameters of the type, each given a literal
\* of its tag, none named like a variable of the calling environment.
PlainArgs(spec) ==
  /\ \A i \in 1..Len(spec.args) :
        /\ HasInitializer(spec.type, spec.args[i].p)
        /\ spec.args[i].v \in LiteralsOf(FindInitializer(spec.type, spec.args[i].p).type)
        /\ \A j \in 1..(i - 1) : spec.args[j].p # spec.args[i].p
  /\ Supplied(spec) \cap CallerNames = {}

\* C5: CreateOrDie of a registered type whose argument list lacks a required
\* parameter (member or temporary) fails, returns no instance and never calls
\* PostInit; when the list is read to its closing parenthesis the failure is
\* the required-parameter error.  That error is raised only if a required
\* parameter is missing: lists that supply every required one succeed with
\* optional parameters left out.
C5_RequiredParameters ==
  last.op = "CreateOrDie" /\ last.spec.type \in ConsTable("Animal") =>
    /\ ~(RequiredNames(last.spec.type) \subseteq Supplied(last.spec)) =>
         /\ ~last.ok
         /\ last.val = NullObj("")
         /\ EventsOf("PostInit", 1) = {}
         /\ EventsOf("CloseParen", 1) # {} => EventsOf("RequiredMissing", 1) # {}
    /\ RequiredNames(last.spec.type) \subseteq Supplied(last.spec) =>
         /\ EventsOf("RequiredMissing", 1) = {}
         /\ PlainArgs(last.spec) => last.ok

\* C5 witness: Calf(mother(nullptr)) lacks the required temporary tag and
\* fails at its closing parenthesis.
C5_Witness ==
  /\ last.op = "CreateOrDie" /\ ~last.ok
  /\ last.spec = [type |-> "Calf",
                  args |-> <<[p |-> "mother", v |-> <<RW("nullptr")>>]>>]
  /\ EventsOf("RequiredMissing", 1) # {}
  /\ EventsOf("Init", 1) # {}

\* The constructions of the last call: each is named by the position of its
\* first token.
Ids == {log[j].id : j \in Events("Enter")}
ReturnedObject(id) == \E j \in EventsOf("Return", id) : log[j].name # ""

\* C6: a construction that returns a non-null object has called PostInit
\* exactly once, after the Init of every supplied argument, after the closing
\* parenthesis and after the check of the required parameters, and before it
\* returned; a construction that returned null or failed never called it.
C6_PostInitExactlyOnce ==
  /\ \A id \in Ids :
       IF ReturnedObject(id)
       THEN /\ Cardinality(EventsOf("PostInit", id)) = 1
            /\ EventsOf("CloseParen", id) # {}
            /\ EventsOf("RequiredChecked", id) # {}
            /\ \A p \in EventsOf("PostInit", id) :
                  /\ \A j \in EventsOf("Init", id) \cup EventsOf("CloseParen", id)
                             \cup EventsOf("RequiredChecked", id) : j < p
                  /\ \A j \in EventsOf("Return", id) : p < j
       ELSE EventsOf("PostInit", id) = {}
  /\ last.op = "CreateOrDie" /\ last.spec # NoSpec =>
       /\ last.ok <=> ReturnedObject(1)
       /\ last.ok => /\ Cardinality(EventsOf("Init", 1)) = Len(last.spec.args)
                     /\ {log[j].name : j \in EventsOf("Init", 1)} = Supplied(last.spec)

\* C6 witness: Calf(tag(4), mother(Cow(name("foo")))) succeeded: two
\* constructions, each with its PostInit.
C6_Witness ==
  /\ last.op = "CreateOrDie" /\ last.ok
  /\ last.spec.type = "Calf"
  /\ Len(last.spec.args) = 2
  /\ last.spec.args[1].p = "tag"
  /\ Cardinality(Ids) = 2
  /\ Cardinality(Events("PostInit")) = 2

\* The calling environment of the last CreateOrDie, as FactoryCall built it.
CallerHeap == Eval(NewEnv(Mach(<<>>, <<>>, <<>>)), 1, RenderProgram(last.prog), 1).m

ArgOrders(n) ==
  {f \in [1..n -> 1..n] : \A i, j \in 1..n : f[i] = f[j] => i = j}
Permuted(spec, f) ==
  [spec EXCEPT !.args = [i \in 1..Len(spec.args) |-> spec.args[f[i]]]]
\* Every permutation of the argument list of the last call also succeeds and
\* gives an object with the same fields.
PermutationsAgree ==
  \A f \in ArgOrders(Len(last.spec.args)) :
     LET r == CreateOrDie(CallerHeap, "Animal", RenderSpec(Permuted(last.spec, f)),
                          1, last.env)
     IN r.ok /\ r.val = last.val

\* The value v contains the identifier `name`.
Mentions(v, name) == \E k \in 1..Len(v) : v[k] = ID(name)
\* No argument's value contains the name of another argument of the list.
NoCrossMention(spec) ==
  \A i, j \in 1..Len(spec.args) :
     i # j => ~Mentions(spec.args[j].v, spec.args[i].p)

C8_NoParameterTwice ==
  last.op = "CreateOrDie" =>
    /\ (\E i, j \in 1..Len(last.spec.args) :
          i < j /\ last.spec.args[i].p = last.spec.args[j].p) => ~last.ok
    /\ \A j \in Events("PostInit") :
          \A n \in DOMAIN log[j].inst.initialized :
             /\ log[j].inst.initialized[n] <= 1
             /\ last.ok /\ log[j].id = 1 =>
                  (log[j].inst.initialized[n] = 1 <=> n \in Supplied(last.spec))

\* C8 witness: Cow(name("foo"), name("foo")) failed after its first
\* argument had been bound.
C8_Witness ==
  /\ last.op = "CreateOrDie" /\ ~last.ok
  /\ last.spec = [type |-> "Cow",
                  args |-> <<[p |-> "name", v |-> <<STR("foo")>>],
                             [p |-> "name", v |-> <<STR("foo")>>]>>]
  /\ Cardinality(EventsOf("Init", 1)) = 1
  /\ EventsOf("CloseParen", 1) = {}

\* C9: Get<T>(name, value) returns true exactly when name is defined and its
\* stored tag is T, and then writes the stored value; otherwise it returns
\* false without Error() and writes nothing; the environment is as before.
C9_GetIffDefinedAndTyped ==
  last.op = "Get" =>
    LET pre == last.pre[last.env]
        match == last.name \in DOMAIN pre.types /\ pre.types[last.name] = last.type
    IN /\ last.ret <=> match
       /\ last.written <=> last.ret
       /\ ~last.fatal
       /\ last.ret => last.val = Binding(pre, last.name).value
       /\ ~last.ret => last.val = NullObj("")
       /\ Snaps = last.pre

\* C9 witness: Get<int> of x, which is defined as an object.
C9_Witness ==
  /\ last.op = "Get" /\ ~last.ret
  /\ last.name = "x" /\ last.type = "int"
  /\ "x" \in DOMAIN last.pre[last.env].types
  /\ last.pre[last.env].types["x"] = "Animal"

\* C10: the environment Copy() returns holds the names, tags and values of
\* the original; no VarMap belongs to two environments; a ReadAndSet on one
\* environment leaves every other environment as it was.
C10_CopyEqualAndIndependent ==
  /\ last.op = "Copy" =>
       /\ Len(envs) = Len(last.pre) + 1
       /\ Snaps[Len(envs)] = last.pre[last.env]
       /\ \A e \in 1..Len(last.pre) : Snaps[e] = last.pre[e]
  /\ \A e1, e2 \in 1..Len(envs) :
        e1 # e2 =>
          \A t1 \in DOMAIN envs[e1].var_map, t2 \in DOMAIN envs[e2].var_map :
             envs[e1].var_map[t1] # envs[e2].var_map[t2]
  /\ last.op = "ReadAndSet" =>
       \A e \in 1..Len(envs) : e # last.env => Snaps[e] = last.pre[e]

\* C10 witness: x was defined before the copy; then n was added to the
\* original only.
C10_Witness ==
  /\ Len(envs) = 2
  /\ last.op = "ReadAndSet" /\ last.ok /\ last.env = 1 /\ last.name = "n"
  /\ DOMAIN envs[1].types = {"x", "n"}
  /\ DOMAIN envs[2].types = {"x"}
  /\ Binding(Snaps[1], "x") = Binding(Snaps[2], "x")

\* A statement whose value is one identifier.
IsReferenceStmt(s) == Len(s.val) = 1 /\ s.val[1].k = "IDENTIFIER"

\* C11: after a successful input, a statement `y = x` on a variable x that
\* was defined before has given y the tag and the value of x, Get on y
\* returns what Get on x returns, and x is bound as before; an invocation
\* that passes a defined variable as an argument has the variable's value in
\* that member, and the variable is bound as before.
C11_ReferenceYieldsSameValue ==
  last.op = "EvalString" /\ last.ok =>
    \A i \in 1..Len(last.prog) :
       LET s == last.prog[i]
           now == Snaps[1]
           pre == last.pre[1]
       IN /\ IsReferenceStmt(s) /\ s.val[1].t \in DOMAIN pre.types =>
               /\ s.nm \in DOMAIN now.types
               /\ Binding(now, s.nm) = Binding(pre, s.val[1].t)
               /\ Binding(now, s.val[1].t) = Binding(pre, s.val[1].t)
               /\ Get(Heap, 1, s.nm, now.types[s.nm]).ret
               /\ \A T \in AllTags :
                     Get(Heap, 1, s.nm, T) = Get(Heap, 1, s.val[1].t, T)
          /\ \A spec \in ReferenceInvocations :
                s.val = RenderSpec(spec) =>
                  \A k \in 1..Len(spec.args) :
                     LET a == spec.args[k]
                     IN Len(a.v) = 1 /\ a.v[1].k = "IDENTIFIER" =>
                          /\ a.v[1].t \in DOMAIN pre.types
                          /\ Binding(now, a.v[1].t) = Binding(pre, a.v[1].t)
                          /\ FindInitializer(spec.type, a.p).member =>
                               Binding(now, s.nm).value.f[a.p]
                                 = Binding(pre, a.v[1].t).value

\* C11 witness: y = x succeeded where x held a constructed object.
C11_Witness ==
  /\ last.op = "EvalString" /\ last.ok
  /\ last.prog = <<Stmt("", "y", <<ID("x")>>)>>
  /\ last.pre[1].types["x"] = "Animal"
  /\ Binding(Snaps[1], "y").value.n = 1
  /\ Binding(Snaps[1], "y").value.f["name"] = StringVal("foo")

\* C12: a statement that declares a tag other than the one its value's
\* tokens stand for (a literal, a non-empty vector, an invocation of a
\* registered type, or a defined variable) fails, and its variable, if it
\* was not defined before, is not defined afterwards.
C12_DeclaredTagMustMatchInferred ==
  last.op = "EvalString" /\ Len(last.prog) = 1 =>
    LET s == last.prog[1]
        pre == last.pre[1]
        differs ==
          \/ \E tv \in InferableValues : s.val = tv.val /\ s.ty # tv.tag
          \/ /\ IsReferenceStmt(s) /\ s.val[1].t \in DOMAIN pre.types
             /\ s.ty # pre.types[s.val[1].t]
    IN s.ty # "" /\ differs =>
         /\ ~last.ok
         /\ s.nm \notin DOMAIN pre.types => s.nm \notin DOMAIN Snaps[1].types
         /\ Snaps[1] = pre

\* C12 witness: `double[] x = {3, 3};` failed in an empty environment: the
\* value stands for int[].
C12_Witness ==
  /\ last.op = "EvalString" /\ ~last.ok
  /\ last.prog = <<Stmt("double[]", "x", Vec(<<<<NUM("3")>>, <<NUM("3")>>>>))>>
  /\ DOMAIN last.pre[1].types = {}
  /\ DOMAIN Snaps[1].types = {}

\* The last input was the one statement `double x = <NUMBER t>;` in an
\* environment that did not define x.
DoubleFromNumber(t) ==
  /\ last.op = "EvalString"
  /\ last.prog = <<Stmt("double", "x", <<NUM(t)>>)>>
  /\ last.tail = <<>>
  /\ "x" \notin DOMAIN last.pre[1].types

ResolvedTag(el, pre) ==
  IF el.ref = "" THEN el.tag
  ELSE IF el.ref \in DOMAIN pre.types THEN pre.types[el.ref] ELSE ""
\* value v is what element el stands for in snapshot pre.
IsValueOf(v, el, pre) ==
  CASE el.ref # "" -> v = Binding(pre, el.ref).value
    [] el.tag = "bool" -> v = BoolVal(el.val[1].t = "true")
    [] el.tag = "int" -> v = IntVal(Atoi(el.val[1].t))
    [] el.tag = "double" -> v = DoubleVal(AtofTenths(el.val[1].t))
    [] el.tag = "string" -> v = StringVal(el.val[1].t)
    [] OTHER -> v.k = el.tag /\ v.n = 1 /\ v.s = el.val[1].t

\* The elements the vector `val` is written with: val is cut at its commas
\* (no element of ElemChoices holds one), and each piece is looked up.
ElementsOf(val) ==
  LET commas == {i \in 1..Len(val) : val[i] = P(",")}
      nth(k) == CHOOSE i \in commas : Cardinality({j \in commas : j < i}) = k - 1
      n == Cardinality(commas) + 1
      piece(k) == SubSeq(val, IF k = 1 THEN 2 ELSE nth(k - 1) + 1,
                              IF k = n THEN Len(val) - 1 ELSE nth(k) - 1)
  IN [k \in 1..n |->
        IF \E el \in ElemChoices : el.val = piece(k)
        THEN CHOOSE el \in ElemChoices : el.val = piece(k)
        ELSE Elem(piece(k), "", "")]

\* C14: a statement whose value is a vector fails, leaving the environment
\* as it was, when some element resolves to a tag other than the first
\* element's; when every element resolves to the same primitive or abstract
\* tag t and the statement declares no tag or t[], it succeeds and binds
\* the vector of tag t[] whose elements are the written ones, in order.
C14_VectorElementsOfOneTag ==
  last.op = "EvalString" /\ last.prog # <<>> /\ last.prog[1].nm = "y"
  /\ last.prog[1].val[1] = P("{") =>
    LET vin == [ty |-> last.prog[1].ty, elems |-> ElementsOf(last.prog[1].val)]
    IN last.prog = <<VectorStmt(vin)>> /\ vin \in VectorInputs =>
       LET pre == last.pre[1]
           now == Snaps[1]
           n == Len(vin.elems)
           tags == [i \in 1..n |-> ResolvedTag(vin.elems[i], pre)]
       IN /\ (\E i \in 1..n : tags[i] # tags[1]) =>
               ~last.ok /\ now = pre
          /\ /\ \A i \in 1..n : tags[i] = tags[1]
             /\ tags[1] \in BaseTags
             /\ vin.ty \in {"", VecTag(tags[1])}
             => /\ last.ok
                /\ "y" \in DOMAIN now.types
                /\ now.types["y"] = VecTag(tags[1])
                /\ Len(Binding(now, "y").value.e) = n
                /\ \A i \in 1..n :
                      IsValueOf(Binding(now, "y").value.e[i], vin.elems[i], pre)

\* C14 witness: `y = {Sheep(name("foo")), x}` succeeded where x held a Cow,
\* and the vector holds the Sheep first and the Cow second.
C14_Witness ==
  /\ last.op = "EvalString" /\ last.ok
  /\ last.prog = <<Stmt("", "y",
         Vec(<<Invoke("Sheep", <<Arg("name", <<STR("foo")>>)>>), <<ID("x")>>>>))>>
  /\ last.pre[1].types["x"] = "Animal"
  /\ Binding(last.pre[1], "x").value.s = "Cow"
  /\ Snaps[1].types["y"] = "Animal[]"
  /\ Binding(Snaps[1], "y").value.e[1].s = "Sheep"
  /\ Binding(Snaps[1], "y").value.e[2] = Binding(last.pre[1], "x").value

\* C14 witness of the failing case: `y = {Cow(name("foo")), Tree()}` failed,
\* a Plant following an Animal.
C14_WitnessMixed ==
  /\ last.op = "EvalString" /\ ~last.ok
  /\ last.prog = <<Stmt("", "y",
         Vec(<<Invoke("Cow", <<Arg("name", <<STR("foo")>>)>>), Invoke("Tree", <<>>)>>))>>
  /\ Snaps[1] = last.pre[1]

\* The last input was the one statement `ty x = {};` in an environment that
\* did not define x.
EmptyVectorStmt(ty) ==
  /\ last.op = "EvalString"
  /\ last.prog = <<Stmt(ty, "x", Vec(<<>>))>>
  /\ last.tail = <<>>
  /\ "x" \notin DOMAIN last.pre[1].types

\* C15: a statement `T[] x = {};` with a vector tag T[] succeeds and binds x
\* to the empty vector of tag T[], which a Get of that type then writes to
\* its slot; a statement `x = {};` without a tag fails,
\* no tag being inferred for its value, and x is not defined afterwards.
C15_EmptyVectorNeedsTag ==
  /\ \A t \in BaseTags :
        EmptyVectorStmt(VecTag(t)) =>
          /\ last.ok
          /\ "x" \in DOMAIN Snaps[1].types
          /\ Snaps[1].types["x"] = VecTag(t)
          /\ "x" \in DOMAIN Snaps[1].vars[VecTag(t)]
          /\ Snaps[1].vars[VecTag(t)]["x"] = VecVal(VecTag(t), <<>>)
          /\ Get(Heap, 1, "x", VecTag(t))
               = [ret |-> TRUE, fatal |-> FALSE, written |-> TRUE,
                  value |-> VecVal(VecTag(t), <<>>)]
  /\ EmptyVectorStmt("") =>
        /\ ~last.ok
        /\ InferType(Heap, 1, Vec(<<>>), 1) = ""
        /\ "x" \notin DOMAIN Snaps[1].types
        /\ Snaps[1] = last.pre[1]

\* C15 witness: `string[] x = {};` succeeded where n was defined, and x is
\* an empty vector.
C15_Witness ==
  /\ EmptyVectorStmt("string[]")
  /\ last.ok
  /\ "n" \in DOMAIN last.pre[1].types
  /\ Binding(Snaps[1], "x") = [type |-> "string[]", value |-> VecVal("string[]", <<>>)]

\* C15 witness of the failing case: `x = {};` failed.
C15_WitnessUntyped ==
  /\ EmptyVectorStmt("")
  /\ ~last.ok
  /\ DOMAIN Snaps[1].types = {}

\* The commas of seps, for a list of n parts, are one between neighbours,
\* none before the first part, and at most `trailing` after the last.
CommasInPlace(seps, n, trailing) ==
  /\ seps[1] = 0
  /\ \A i \in 2..n : seps[i] = 1
  /\ n > 0 => seps[n + 1] <= trailing
\* The object an argument list of literals constructs.
ObjectOf(spec) ==
  ObjVal(IF spec.type = "Tree" THEN "Plant" ELSE "Animal", spec.type,
         [q \in {spec.args[i].p : i \in 1..Len(spec.args)} |->
            LET a == CHOOSE a \in {spec.args[i] : i \in 1..Len(spec.args)} : a.p = q
            IN IF q = "name" THEN StringVal(a.v[1].t) ELSE IntVal(Atoi(a.v[1].t))])

\* C16: an invocation whose arguments are separated by one comma each, with
\* or without one comma after the last argument, succeeds and constructs
\* the same object; an invocation with a comma before the first argument,
\* with two commas in a row, or with two arguments not separated by a comma
\* fails and defines nothing.  A vector whose elements are separated by one
\* comma each, with or without one comma after the last element, succeeds
\* and holds exactly the written elements, in order.
C16_TrailingCommaOnly ==
  last.op = "EvalString" /\ last.prog # <<>> /\ last.prog[1].nm = "z" =>
    /\ \A in \in ArgListInputs :
          last.prog = <<ArgListStmt(in)>> =>
            IF CommasInPlace(in.seps, Len(in.spec.args), 1)
            THEN /\ last.ok
                 /\ "z" \in DOMAIN Snaps[1].types
                 /\ Binding(Snaps[1], "z").value = ObjectOf(in.spec)
            ELSE ~last.ok /\ Snaps[1] = last.pre[1]
    /\ \A in \in ElemListInputs :
          last.prog = <<ElemListStmt(in)>>
          /\ CommasInPlace(in.seps, Len(in.elems), 1) =>
            /\ last.ok
            /\ "z" \in DOMAIN Snaps[1].types
            /\ Snaps[1].types["z"] = VecTag(in.elems[1].tag)
            /\ Len(Binding(Snaps[1], "z").value.e) = Len(in.elems)
            /\ \A i \in 1..Len(in.elems) :
                  IsValueOf(Binding(Snaps[1], "z").value.e[i], in.elems[i],
                            last.pre[1])

\* C16 witness: `bool[] z = {true, false, true,};` succeeded with a vector
\* of length 3.
C16_Witness ==
  /\ last.op = "EvalString" /\ last.ok
  /\ last.prog = <<Stmt("bool[]", "z",
         <<P("{"), RW("true"), P(","), RW("false"), P(","), RW("true"), P(","),
           P("}")>>)>>
  /\ Binding(Snaps[1], "z").value.e = <<BoolVal(TRUE), BoolVal(FALSE), BoolVal(TRUE)>>

\* C16 witness of a trailing comma in an argument list:
\* `z = Cow(name("foo"), age(3),);` succeeded.
C16_WitnessArgs ==
  /\ last.op = "EvalString" /\ last.ok
  /\ last.prog = <<Stmt("", "z",
         <<ID("Cow"), P("(")>> \o Arg("name", <<STR("foo")>>) \o <<P(",")>>
         \o Arg("age", <<NUM("3")>>) \o <<P(","), P(")")>>)>>
  /\ Binding(Snaps[1], "z").value.f["age"] = IntVal(3)

\* C16 witness of the rejected cases: `z = Cow(name("foo") age(3));` failed.
C16_WitnessNoComma ==
  /\ last.op = "EvalString" /\ ~last.ok
  /\ last.prog = <<Stmt("", "z",
         <<ID("Cow"), P("(")>> \o Arg("name", <<STR("foo")>>)
         \o Arg("age", <<NUM("3")>>) \o <<P(")")>>)>>
  /\ "z" \notin DOMAIN Snaps[1].types

\* The last input was the one statement s.
OnlyStatement(s) ==
  last.op = "EvalString" /\ last.prog = <<s>> /\ last.tail = <<>>

\* C17: with either word, nullptr or NULL: a statement that declares an
\* abstract type A succeeds and binds the null object of A, and no instance
\* of any concrete type is created; the word is one value, so that two of
\* them make a vector of two null objects and one of them is a whole
\* argument; a statement that declares a primitive tag fails; a statement
\* that declares no tag fails, no tag being inferred.  Failing statements
\* leave the environment as it was.
C17_NullWordsInterchangeable ==
  \A word \in NullWords :
     /\ \A a \in AbstractTypes :
           OnlyStatement(NullStmt(a, word)) =>
             /\ last.ok
             /\ "q" \in DOMAIN Snaps[1].types
             /\ Binding(Snaps[1], "q") = [type |-> a, value |-> NullObj(a)]
             /\ Events("NewInstance") = {}
     /\ OnlyStatement(NullVectorStmt(word)) =>
           /\ last.ok
           /\ "q" \in DOMAIN Snaps[1].types
           /\ Binding(Snaps[1], "q").value.e = <<NullObj("Animal"), NullObj("Animal")>>
           /\ Events("NewInstance") = {}
     /\ OnlyStatement(NullArgStmt(word)) =>
           /\ last.ok
           /\ "q" \in DOMAIN Snaps[1].types
           /\ Binding(Snaps[1], "q").value.f["mother"] = NullObj("Animal")
           /\ \A j \in Events("NewInstance") : log[j].name = "Calf"
     /\ \A t \in PrimitiveTags :
           OnlyStatement(NullStmt(t, word)) =>
             ~last.ok /\ Snaps[1] = last.pre[1]
     /\ OnlyStatement(NullStmt("", word)) =>
           /\ ~last.ok
           /\ InferType(Heap, 1, <<RW(word)>>, 1) = ""
           /\ Snaps[1] = last.pre[1]

\* C17 witness: `Plant q = NULL;` succeeded and q is the null Plant.
C17_Witness ==
  /\ OnlyStatement(NullStmt("Plant", "NULL"))
  /\ last.ok
  /\ Binding(Snaps[1], "q") = [type |-> "Plant", value |-> NullObj("Plant")]

\* C17 witnesses of the failing cases: `int q = nullptr;` and `q = NULL;`
\* failed.
C17_WitnessPrimitive ==
  OnlyStatement(NullStmt("int", "nullptr")) /\ ~last.ok
C17_WitnessUntyped ==
  OnlyStatement(NullStmt("", "NULL")) /\ ~last.ok

\* C18: an EvalString call on statements followed by text that is not a
\* complete statement fails, whatever the statements are and whatever the
\* interpreter held before; so a call that succeeds was given complete
\* statements only.
C18_WholeInputIsStatements ==
  last.op = "EvalString" =>
    /\ last.tail \in IncompleteTails => ~last.ok
    /\ last.ok => last.tail \in CompleteTails

\* C18 witness: `string n = "foo"; z = 3` failed for the missing ';' although
\* its first statement was evaluated.
C18_Witness ==
  /\ last.op = "EvalString" /\ ~last.ok
  /\ last.prog = <<Stmt("string", "n", <<STR("foo")>>)>>
  /\ last.tail = <<ID("z"), P("="), NUM("3")>>
  /\ "n" \notin DOMAIN last.pre[1].types
  /\ "n" \in DOMAIN Snaps[1].types

\* C18 witness of the successful case: an input ending in the complete
\* statement `z = 3;` succeeded.
C18_WitnessComplete ==
  /\ last.op = "EvalString" /\ last.ok
  /\ last.tail = Render(Stmt("", "z", <<NUM("3")>>))
  /\ "z" \in DOMAIN Snaps[1].types

\* The first Register call made under the name of call k.
FirstCall(k) ==
  CHOOSE j \in 1..k :
     /\ factory.calls[j].type = factory.calls[k].type
     /\ \A i \in 1..(j - 1) : factory.calls[i].type # factory.calls[k].type

\* C19: after any sequence of Register calls on one factory, every call
\* returned the constructor given to the first call made under its name,
\* cons_table_ holds exactly one entry for each name registered, that entry
\* is the first call's constructor, and the constructors deleted are exactly
\* those given to the later calls.
C19_FirstRegistrationKept ==
  LET calls == factory.calls
      K == 1..Len(calls)
  IN /\ \A k \in K : calls[k].ret = calls[FirstCall(k)].p
     /\ factory.cons_table_ = {<<calls[k].type, calls[FirstCall(k)].p>> : k \in K}
     /\ \A en1, en2 \in factory.cons_table_ : en1[1] = en2[1] => en1 = en2
     /\ {en[1] : en \in factory.cons_table_} = {calls[k].type : k \in K}
     /\ factory.deleted = {calls[k].p : k \in {j \in K : FirstCall(j) # j}}
     /\ \A en \in factory.cons_table_ : en[2] \notin factory.deleted
     /\ factory.containers = IF K = {} THEN 0 ELSE 1

\* C19 witness: Cow was registered, then Sheep, then Cow again: the third
\* call returned the first constructor and deleted its own.
C19_Witness ==
  /\ Len(factory.calls) = 3
  /\ factory.calls[1].type = "Cow"
  /\ factory.calls[2].type = "Sheep"
  /\ factory.calls[3] = [type |-> "Cow", p |-> 3, ret |-> 1]
  /\ factory.cons_table_ = {<<"Cow", 1>>, <<"Sheep", 2>>}
  /\ factory.deleted = {3}

\* The names defined when statement i of the last input is reached, if
\* every statement before it succeeded.
DefinedAt(i) == DOMAIN last.pre[1].types \cup {last.prog[j].nm : j \in 1..(i - 1)}
\* Statement s fails with a fatal error when the names of D are defined.
FailsAt(s, D) ==
  \/ s.nm \in D
  \/ s.val = <<ID("a")>> /\ "a" \notin D
  \/ s = Stmt("int", "e", <<STR("foo")>>)
  \/ s = MissingSemicolon
\* The statements of the last input that fail, the earlier ones succeeding.
Failing == {k \in 1..Len(last.prog) :
              /\ FailsAt(last.prog[k], DefinedAt(k))
              /\ \A i \in 1..(k - 1) : ~FailsAt(last.prog[i], DefinedAt(i))}
AbortedInput ==
  /\ last.op = "EvalString"
  /\ last.prog \in SeqsOf(AbortStatements, 2, MaxStmts)
  /\ Failing # {}

\* C20 as stated: when statement k of an input fails, the call fails and
\* the names defined afterwards are those defined when statement k was
\* reached: none is added by statement k or by a later statement.
C20_NothingDefinedFromFailure ==
  AbortedInput =>
    \A k \in Failing :
       /\ ~last.ok
       /\ DOMAIN Snaps[1].types = DefinedAt(k)

\* C20 amended: when statement k of an input fails, the call fails, the
\* statements before k stay evaluated and no statement after k is: the
\* names defined afterwards are those defined when statement k was reached
\* and, where statement k failed only for its missing ';', its own
\* variable; what was defined before the call is bound as before.
C20_NothingDefinedAfterFailure ==
  AbortedInput =>
    \A k \in Failing :
       /\ ~last.ok
       /\ DOMAIN Snaps[1].types
            = DefinedAt(k) \cup (IF last.prog[k] = MissingSemicolon /\ "f" \notin DefinedAt(k)
                                 THEN {"f"} ELSE {})
       /\ \A n \in DOMAIN last.pre[1].types :
             Binding(Snaps[1], n) = Binding(last.pre[1], n)

\* C20 witness: `a = 3; int e = "foo"; c = a;` or a shorter input of that
\* kind failed at its second statement: a is defined, e and c are not.
C20_Witness ==
  /\ AbortedInput
  /\ ~last.ok
  /\ last.prog[1] = Stmt("", "a", <<NUM("3")>>)
  /\ last.prog[2] = Stmt("int", "e", <<STR("foo")>>)
  /\ "a" \in DOMAIN Snaps[1].types
  /\ "e" \notin DOMAIN Snaps[1].types
  /\ "c" \notin DOMAIN Snaps[1].types

\* C20 witness of the missing ';': `f = 3 g = 4; a = 3;` failed, f is
\* defined, g and a are not.
C20_WitnessMissingSemicolon ==
  /\ AbortedInput
  /\ ~last.ok
  /\ last.prog[1] = MissingSemicolon
  /\ last.prog[2] = Stmt("", "a", <<NUM("3")>>)
  /\ DOMAIN Snaps[1].types = DOMAIN last.pre[1].types \cup {"f"}

\* C21 as stated: a GetType call on a name that the environment does not
\* define fails; it returns no type tag.
C21_GetTypeUndefinedFails ==
  last.op = "GetType" /\ last.name \notin DOMAIN Snaps[last.env].types => ~last.ok

\* GetType on a defined name returns the tag stored for it.
C21_GetTypeDefined ==
  last.op = "GetType" /\ last.name \in DOMAIN Snaps[last.env].types =>
    last.ok /\ last.type = Snaps[last.env].types[last.name]

\* A GetType call on an undefined name returned a tag.
C21_Witness ==
  /\ last.op = "GetType"
  /\ last.name \notin DOMAIN Snaps[last.env].types
  /\ last.ok
  /\ last.type = "int"

\* The last call was CreateOrDie on a string that starts with the
\* identifier c, followed by whatever.
StartsWith(c) ==
  /\ last.op = "CreateOrDie"
  /\ SpecTokens(last) # <<>>
  /\ SpecTokens(last)[1] = ID(c)

\* C22 as stated: CreateOrDie on a string that starts with an identifier
\* that is no registered concrete type fails with the unknown-type error,
\* whatever follows the identifier, and creates no instance.
C22_UnknownTypeBeforeParen ==
  StartsWith("Dog") =>
    /\ ~last.ok
    /\ EventsOf("UnknownType", 1) # {}
    /\ Events("NewInstance") = {}

\* C22 witness: `Dog;` failed for the missing '(' and not for the type.
C22_Witness ==
  /\ StartsWith("Dog")
  /\ last.tail = <<ID("Dog"), P(";")>>
  /\ ~last.ok
  /\ EventsOf("ExpectedOpenParen", 1) # {}
  /\ EventsOf("UnknownType", 1) = {}

\* The value a literal argument stands for.
LiteralValue(v) ==
  CASE v[1].k = "NUMBER" -> IntVal(Atoi(v[1].t))
    [] v[1].k = "STRING" -> StringVal(v[1].t)
    [] OTHER -> NullObj("Animal")
IsLiteral(v) == Len(v) = 1 /\ v[1].k \in {"NUMBER", "STRING"}
\* The last call was CreateOrDie on an invocation, and it returned an object.
Constructed ==
  /\ last.op = "CreateOrDie" /\ last.spec # NoSpec /\ last.ok
  /\ EventsOf("PostInit", 1) # {}
\* The PostInit event of the outermost construction of the last call.
PostInitOf1 == log[CHOOSE p \in EventsOf("PostInit", 1) : TRUE]

C24_ExactlySiblings ==
  Constructed =>
    \A mi \in RegisterInitializers(last.spec.type) :
       /\ mi.name \in DOMAIN PostInitOf1.view <=> mi.name \in Supplied(last.spec)
       /\ \A k \in 1..Len(last.spec.args) :
            (last.spec.args[k].p = mi.name /\ IsLiteral(last.spec.args[k].v))
              => PostInitOf1.view[mi.name].value = LiteralValue(last.spec.args[k].v)

\* At PostInit a parameter name of the descriptor is defined in the child
\* environment if and only if the invocation supplied it or the calling
\* environment defined it.
C24_SiblingsAndCallerNames ==
  Constructed =>
    \A mi \in RegisterInitializers(last.spec.type) :
       mi.name \in DOMAIN PostInitOf1.view
         <=> (mi.name \in Supplied(last.spec) \/ mi.name \in CallerNames)

\* C24 witness: the caller defined int age = 3 and Cow(name("foo")) was
\* constructed: PostInit sees age, which the invocation did not supply.
C24_Witness ==
  /\ Constructed
  /\ last.prog = <<Stmt("int", "age", <<NUM("3")>>)>>
  /\ last.spec = [type |-> "Cow", args |-> <<[p |-> "name", v |-> <<STR("foo")>>]>>]
  /\ "age" \in DOMAIN PostInitOf1.view
  /\ PostInitOf1.view["age"].value = IntVal(3)
  /\ "age" \notin DOMAIN last.val.f

\* The string of the last call is one <spec_or_null> followed by more tokens.
HasTrailingTokens ==
  \/ last.spec # NoSpec /\ last.tail # <<>>
  \/ last.spec = NoSpec /\ Len(last.tail) > 1 /\ IsNullWord(last.tail[1])

\* C25: CreateOrDie on a string that has further tokens after the closing
\* ')' of the invocation, or after nullptr or NULL, fails.
C25_TrailingTokensRejected ==
  (last.op = "CreateOrDie" /\ HasTrailingTokens) => ~last.ok

\* C25 witness: CreateOrDie on `Cow(name("foo")) z` returned a Cow, and
\* CreateOrDie on `nullptr z` returned the null object.
C25_Witness ==
  /\ last.op = "CreateOrDie" /\ HasTrailingTokens /\ last.ok
  /\ last.tail \in {<<ID("z")>>, <<RW("nullptr"), ID("z")>>}
  /\ last.spec # NoSpec => last.val.f = ("name" :> StringVal("foo"))

\* The outermost construction of the last call read its closing ')': Init
\* returned without error for every argument of the invocation.
AllInitsReturned ==
  /\ last.op = "CreateOrDie" /\ last.spec # NoSpec
  /\ EventsOf("CloseParen", 1) # {}

\* C26: when Init has returned without error for every supplied parameter,
\* each of them, member or temporary, has been counted as initialized, and
\* the 'required but not found' error names a construction some required
\* parameter of which was not supplied.
C26_SuppliedIsInitialized ==
  AllInitsReturned =>
    /\ \A k \in 1..Len(last.spec.args) :
         \E j \in EventsOf("Init", 1) : log[j].name = last.spec.args[k].p
    /\ EventsOf("RequiredMissing", 1) # {}
         => RequiredNames(last.spec.type) \ Supplied(last.spec) # {}
    /\ Constructed
         => \A n \in Supplied(last.spec) : PostInitOf1.inst.initialized[n] >= 1

\* C26 witness: Calf(tag(4), age(3)) passed the required check: tag, a
\* required temporary, and age, an optional member, were both counted.
C26_Witness ==
  /\ AllInitsReturned /\ Constructed
  /\ last.spec.type = "Calf" /\ Supplied(last.spec) = {"tag", "age"}
  /\ EventsOf("RequiredChecked", 1) # {}
  /\ PostInitOf1.inst.initialized["tag"] = 1
  /\ PostInitOf1.inst.initialized["age"] = 1

\* The calling environment that program prog leaves behind.
CallerHeapOf(prog) == Eval(NewEnv(Mach(<<>>, <<>>, <<>>)), 1, RenderProgram(prog), 1).m
\* The names the invocation references as values: an argument whose value is
\* one identifier.
ReferencedNames(spec) ==
  {spec.args[k].v[1].t : k \in {i \in 1..Len(spec.args) :
      Len(spec.args[i].v) = 1 /\ spec.args[i].v[1].k = "IDENTIFIER"}}
\* The parameter names of every concrete type.
AllParameterNames ==
  UNION {{mi.name : mi \in RegisterInitializers(c)} : c \in ConsTable("Animal")}
\* Two calling environments give every name of `names` the same binding.
AgreeOn(m1, m2, names) ==
  \A n \in names :
     /\ Defined(m1, 1, n) <=> Defined(m2, 1, n)
     /\ Defined(m1, 1, n) => EnvView(m1, 1)[n] = EnvView(m2, 1)[n]
\* The invocation of the last call has the same outcome in the calling
\* environment that prog leaves behind.
SameOutcomeAfter(prog) ==
  LET r == CreateOrDie(CallerHeapOf(prog), "Animal", RenderSpec(last.spec), 1, 1)
  IN r.ok = last.ok /\ (r.ok => r.val = last.val)

\* C27: two calling environments that agree on every variable the
\* invocation references as a value give the same outcome: both fail, or
\* both succeed with the same fields.
C27_IndependentOfUnreferenced ==
  (last.op = "CreateOrDie" /\ last.spec # NoSpec /\ last.tail = <<>>) =>
    \A prog \in CallerPrograms :
       AgreeOn(CallerHeap, CallerHeapOf(prog), ReferencedNames(last.spec))
         => SameOutcomeAfter(prog)

\* Two calling environments that agree on every variable the invocation
\* references as a value and on every variable named like a parameter give
\* the same outcome.
C27_IndependentOfOtherNames ==
  (last.op = "CreateOrDie" /\ last.spec # NoSpec /\ last.tail = <<>>) =>
    \A prog \in CallerPrograms :
       AgreeOn(CallerHeap, CallerHeapOf(prog),
               ReferencedNames(last.spec) \cup AllParameterNames)
         => SameOutcomeAfter(prog)

\* C27 witness: Calf(tag(4)) references no variable; it failed in a calling
\* environment that defines int tag = 3 and succeeds in an empty one.
C27_Witness ==
  /\ last.op = "CreateOrDie" /\ ~last.ok
  /\ last.prog = <<Stmt("int", "tag", <<NUM("3")>>)>>
  /\ last.spec = [type |-> "Calf", args |-> <<[p |-> "tag", v |-> <<NUM("4")>>]>>]
  /\ ReferencedNames(last.spec) = {}
  /\ CreateOrDie(CallerHeapOf(<<>>), "Animal", RenderSpec(last.spec), 1, 1).ok

\* Argument k of the invocation references by name a parameter that the list
\* supplies before it, or only after it.
RefersTo(spec, k) == spec.args[k].v[1].t
IsSiblingReference(spec, k) ==
  /\ Len(spec.args[k].v) = 1 /\ spec.args[k].v[1].k = "IDENTIFIER"
  /\ RefersTo(spec, k) \in Supplied(spec)
RefersToEarlier(spec, k) ==
  /\ IsSiblingReference(spec, k)
  /\ \E j \in 1..(k - 1) : spec.args[j].p = RefersTo(spec, k)
RefersToLater(spec, k) ==
  /\ IsSiblingReference(spec, k)
  /\ \A j \in 1..k : spec.args[j].p # RefersTo(spec, k)

\* The invocation is well formed around argument k: the type is registered,
\* the parameters are distinct ones of the type, every required one is
\* supplied, none is named like a caller variable, and every argument but k
\* is given a literal of its tag.
PlainButFor(spec, k) ==
  /\ spec.type \in ConsTable("Animal")
  /\ \A i \in 1..Len(spec.args) :
        /\ HasInitializer(spec.type, spec.args[i].p)
        /\ i # k => spec.args[i].v
                      \in LiteralsOf(FindInitializer(spec.type, spec.args[i].p).type)
        /\ \A j \in 1..(i - 1) : spec.args[j].p # spec.args[i].p
  /\ RequiredNames(spec.type) \subseteq Supplied(spec)
  /\ Supplied(spec) \cap CallerNames = {}

\* C28: an argument whose value names a sibling bound earlier in the list
\* (in a well-formed invocation, both parameters of one tag) is bound to
\* that sibling's value, in the child environment and in its field; an
\* argument whose value names a sibling that only comes later makes the
\* construction fail, and when the caller has no variable of that name,
\* at most the arguments before it are bound, the later sibling never.
C28_SiblingsInSourceOrder ==
  (last.op = "CreateOrDie" /\ last.spec # NoSpec /\ last.tail = <<>>) =>
    \A k \in 1..Len(last.spec.args) :
       LET a == last.spec.args[k]
       IN /\ (/\ RefersToEarlier(last.spec, k)
               /\ PlainButFor(last.spec, k)
               /\ FindInitializer(last.spec.type, a.p).type
                    = FindInitializer(last.spec.type, RefersTo(last.spec, k)).type)
               => /\ Constructed
                  /\ PostInitOf1.view[a.p].value
                       = PostInitOf1.view[RefersTo(last.spec, k)].value
                  /\ FindInitializer(last.spec.type, a.p).member
                       => last.val.f[a.p] = PostInitOf1.view[RefersTo(last.spec, k)].value
          /\ RefersToLater(last.spec, k)
               => /\ ~last.ok
                  /\ RefersTo(last.spec, k) \notin CallerNames
                       => /\ Cardinality(EventsOf("Init", 1)) < k
                          /\ \A j \in EventsOf("Init", 1) :
                               log[j].name # RefersTo(last.spec, k)

\* C28 witness: Calf(tag(4), age(tag)) was constructed with age = 4.
C28_Witness ==
  /\ Constructed
  /\ last.spec = [type |-> "Calf",
                  args |-> <<[p |-> "tag", v |-> <<NUM("4")>>],
                             [p |-> "age", v |-> <<ID("tag")>>]>>]
  /\ RefersToEarlier(last.spec, 2)
  /\ last.val.f = ("age" :> IntVal(4))

\* Calf(age(tag), tag(4)) failed.
C28_LaterSiblingWitness ==
  /\ last.op = "CreateOrDie" /\ ~last.ok
  /\ last.spec = [type |-> "Calf",
                  args |-> <<[p |-> "age", v |-> <<ID("tag")>>],
                             [p |-> "tag", v |-> <<NUM("4")>>]>>]
  /\ RefersToLater(last.spec, 1)

\* The calls so far are Register and ClearStatic calls, and Print calls,
\* which change nothing but what is written.
OnlyRegisterAndClearStatic ==
  \A j \in 1..Len(log) : log[j].ev \in {"ClearStatic", "Print"}
\* The entries of the list of FactoryContainer for base type base.
EntriesOf(base) ==
  {i \in 1..Len(factory.factories_.list) : factory.factories_.list[i] = base}
\* A ClearStatic call leaves no name registered and nothing to collect, and
\* a second ClearStatic would change nothing.
ClearStaticIdempotent ==
  FactoryClearStatic =>
    /\ \A type \in RegisteredNames : ~IsRegistered(factory', type)
    /\ CollectRegistered(factory', "Animal") = {}
    /\ ClearStatic(factory') = factory'

\* C29: after Register and ClearStatic calls in any order FactoryContainer
\* holds at most one factory for a base type and Print lists each base type
\* once; and ClearStatic leaves IsRegistered false for every name and
\* CollectRegistered adding nothing, a second ClearStatic changing nothing.
C29_OneFactoryPerType ==
  /\ [](OnlyRegisterAndClearStatic =>
          /\ \A base \in AbstractTypes : Cardinality(EntriesOf(base)) <= 1
          /\ \A i, j \in 1..Len(factory.out) :
               factory.out[i].base = factory.out[j].base => i = j)
  /\ [][ClearStaticIdempotent]_vars

\* Every ClearStatic call leaves no name registered and is idempotent.
C29_ClearStaticIdempotent == [][ClearStaticIdempotent]_vars

\* C29 witness: Register, ClearStatic, Register, Print: the container holds
\* two factories of Animal and Print listed Animal twice.
C29_Witness ==
  /\ Len(factory.calls) = 2
  /\ log = <<Ev3("ClearStatic", 0, ""), Ev3("Print", 0, "")>>
  /\ factory.factories_ = [state |-> "live", list |-> <<"Animal", "Animal">>]
  /\ Len(factory.out) = 2
  /\ factory.out[1] = factory.out[2]
  /\ factory.out[1].base = "Animal"

\* C30: whenever initialized_ of FactoryContainer is non-zero, factories_
\* points to a live list: no call has gone through a deleted list and no
\* list was deleted twice.
C30_InitializedMeansLive ==
  /\ factory.container_initialized_ # 0 => factory.factories_.state = "live"
  /\ factory.factories_.state = "deleted" => factory.ub = 0
  /\ ~factory.twice

\* C30 witness: Add, Clear, Clear: initialized_ is still 1, factories_
\* points to the deleted list, and the second Clear went through it and
\* deleted it again.
C30_Witness ==
  /\ log = <<Ev3("Add", 0, ""), Ev3("Clear", 0, ""), Ev3("Clear", 0, "")>>
  /\ factory.container_initialized_ = 1
  /\ factory.factories_.state = "deleted"
  /\ factory.ub = 1
  /\ factory.twice

\* Add, Clear, then Print, begin or end: the call went through the deleted
\* list.
C30_AccessAfterClear ==
  /\ Len(log) = 3 /\ log[1].ev = "Add" /\ log[2].ev = "Clear"
  /\ log[3].ev \in {"Print", "begin", "end", "Add"}
  /\ factory.ub = 1

====
